---- MODULE Spec2Model ----
(***************************************************************************)
(* Financial-ratio analysis engine of ai-agent-skills:                     *)
(*   calculate_ratios.py  (FinancialRatioCalculator, generate_summary)     *)
(*   interpret_ratios.py  (RatioInterpreter, perform_comprehensive_...)    *)
(*                                                                         *)
(* Numbers.  Python computes with ints and IEEE doubles.  The model uses   *)
(* exact rationals [n, d] in lowest terms with d > 0.  Every value the     *)
(* code compares is an int, a decimal literal, or a correctly rounded      *)
(* quotient of such values, and rounding to double is monotone, so within  *)
(* the bounded inputs used here a comparison of doubles and the comparison *)
(* of the exact values agree (no two distinct values used here round to    *)
(* the same double).                                                       *)
(*                                                                         *)
(* Dicts are functions with a finite domain of strings; a raised exception *)
(* is an error record that propagates to the caller.                       *)
(***************************************************************************)
EXTENDS Integers, Sequences, FiniteSets, TLC

VARIABLES
    financial_data,   \* the caller's statement record (dict of sub-tables)
    edits,            \* how many times the caller has changed the record
    calculator,       \* the live FinancialRatioCalculator, or None
    unused,           \* TRUE while the live calculator has computed nothing yet
    first_ratios,     \* what the first calculate_all_ratios call made on the
                      \* present record returned, or None
    ratios,           \* what the last calculate_all_ratios call returned, or None
    repeats,          \* how the calculate_all_ratios calls made on the present
                      \* record after the first one were made: a subset of
                      \* {"same calculator", "new calculator"}
    output,           \* the calculate_ratios_from_data or
                      \* perform_comprehensive_analysis call just made: its
                      \* arguments and what it returned, or None
    industry_arg,     \* the industry string passed to RatioInterpreter(...)
    interpreter,      \* the live RatioInterpreter, or None
    ratio_arg,        \* the ratio name passed to the last interpret_ratio call
    interpretation,   \* the dict the last interpret_ratio call returned, as the
                      \* caller holds it now, or None
    catalog,          \* the class attribute RatioInterpreter.BENCHMARKS: one dict
                      \* object per industry and per ratio, shared by all instances
    tampered,         \* TRUE when the caller has written into interpretation
                      \* since interpret_ratio returned it
    writes            \* how many times the caller has written into a result

vars == <<financial_data, edits, calculator, unused, first_ratios, ratios,
          repeats, output, industry_arg, interpreter, ratio_arg, interpretation,
          catalog, tampered, writes>>

engineVars == <<financial_data, edits, calculator, unused, first_ratios, ratios,
                repeats, output>>
interpreterVars == <<industry_arg, interpreter, ratio_arg, interpretation,
                     catalog, tampered, writes>>

None == [none |-> TRUE]

\* ------------------------------------------------------------------------
\* Bounds of the model
\* ------------------------------------------------------------------------
\* changes the caller makes to a statement record before an analysis run
MaxEdits == 1
\* leading characters of an industry name whose case varies
MaxCased == 2
\* writes the caller makes into the results it was handed
MaxWrites == 1
\* values in a series handed to analyze_trend
MaxValues == 2
\* interpretations in an analysis handed to _assess_overall_health
MaxRatings == 2
MaxVersions == 2

\* ------------------------------------------------------------------------
\* Exact rational arithmetic (Python's numeric operators)
\* ------------------------------------------------------------------------
\* Python evaluates an argument once, at the call: Only({e(x) : x \in {arg}})
\* is e with x bound to the value of arg
Only(S) == CHOOSE x \in S : TRUE

Abs(x) == IF x < 0 THEN -x ELSE x

RECURSIVE GCD(_, _)
GCD(a, b) == IF b = 0 THEN a ELSE GCD(b, a % b)

Reduced(n, d, g) == IF d < 0 THEN [n |-> -(n \div g), d |-> -(d \div g)]
                    ELSE [n |-> n \div g, d |-> d \div g]

\* the rational n/d in lowest terms, d # 0
Norm(n, d) == Only({Reduced(x, y, GCD(Abs(x), Abs(y))) : x \in {n}, y \in {d}})

R(n) == [n |-> n, d |-> 1]
Zero == R(0)
IsNum(x) == {"n", "d"} \subseteq DOMAIN x

RAdd(a, b) == Only({Norm(x.n * y.d + y.n * x.d, x.d * y.d) : x \in {a}, y \in {b}})
RSub(a, b) == Only({Norm(x.n * y.d - y.n * x.d, x.d * y.d) : x \in {a}, y \in {b}})
\* cross-reduced before multiplying
Product(x, y) == [n |-> x.n * y.n, d |-> x.d * y.d]
RMul(a, b) == Only({Product(Norm(x.n, y.d), Norm(y.n, x.d)) : x \in {a}, y \in {b}})
RLt(a, b) == Only({x.n * y.d < y.n * x.d : x \in {a}, y \in {b}})
RLe(a, b) == Only({x.n * y.d <= y.n * x.d : x \in {a}, y \in {b}})
RGt(a, b) == RLt(b, a)
RGe(a, b) == RLe(b, a)
RAbs(a) == Only({[n |-> Abs(x.n), d |-> x.d] : x \in {a}})

\* ------------------------------------------------------------------------
\* Exceptions and dicts
\* ------------------------------------------------------------------------
Raised(e) == [raised |-> e]
IsRaised(x) == "raised" \in DOMAIN x

EmptyDict == [k \in {} |-> Zero]

\* dict.get(key, default)
Get(d, key, default) == Only({IF key \in DOMAIN x THEN x[key] ELSE default : x \in {d}})

\* d[key] = value
Put(d, key, value) ==
    Only({[k \in DOMAIN x \cup {key} |-> IF k = key THEN v ELSE x[k]] : x \in {d}, v \in {value}})

\* del d[key]
Del(d, key) == Only({[k \in DOMAIN x \ {key} |-> x[k]] : x \in {d}})

\* Python's numerator / denominator; an operand that is an exception already
\* raised upstream propagates
Quotient(x, y) ==
    IF ~IsNum(x) THEN x
    ELSE IF ~IsNum(y) THEN y
    ELSE IF y = Zero THEN Raised("ZeroDivisionError")
    ELSE Product(Norm(x.n, y.n), Norm(y.d, x.d))

TrueDiv(numerator, denominator) ==
    Only({Quotient(x, y) : x \in {numerator}, y \in {denominator}})

\* a function body that computed the dict d returns it, unless computing one
\* of its values raised
FirstRaisedIn(d) ==
    IF \E k \in DOMAIN d : IsRaised(d[k])
    THEN CHOOSE e \in {d[k] : k \in DOMAIN d} : IsRaised(e)
    ELSE d

Returns(d) == Only({FirstRaisedIn(x) : x \in {d}})

\* ------------------------------------------------------------------------
\* calculate_ratios.py: FinancialRatioCalculator
\* ------------------------------------------------------------------------
TableNames == {"income_statement", "balance_sheet", "cash_flow", "market_data"}

\* __init__ with financial_data.setdefault(table, {}) where the code has
\* financial_data.get(table, {}): a missing sub-table is added to the caller's
\* record
CalculatorWithSetdefault(data) ==
    [self |-> [income_statement |-> Get(data, "income_statement", EmptyDict),
               balance_sheet    |-> Get(data, "balance_sheet", EmptyDict),
               cash_flow        |-> Get(data, "cash_flow", EmptyDict),
               market_data      |-> Get(data, "market_data", EmptyDict),
               ratios           |-> EmptyDict,
               shared           |-> TableNames],
     financial_data |-> [table \in DOMAIN data \cup TableNames |->
                            Get(data, table, EmptyDict)]]

\* __init__: the new calculator, and the caller's record after the call.
\* self.shared is not a field of the class: it names the sub-tables that are
\* the caller's own dict objects (financial_data.get returns the object, not a
\* copy); a missing sub-table is a fresh {} of the calculator's own.
FinancialRatioCalculator(data) ==
    [self |-> [income_statement |-> Get(data, "income_statement", EmptyDict),
               balance_sheet    |-> Get(data, "balance_sheet", EmptyDict),
               cash_flow        |-> Get(data, "cash_flow", EmptyDict),
               market_data      |-> Get(data, "market_data", EmptyDict),
               ratios           |-> EmptyDict,
               shared           |-> DOMAIN data \cap TableNames],
     financial_data |-> data]

\* safe_divide without its test of the denominator
unguarded_divide(numerator, denominator, default) == TrueDiv(numerator, denominator)

\* an argument whose evaluation already raised never reaches the body
safe_divide(numerator, denominator, default) ==
    Only({IF IsRaised(x) THEN x
          ELSE IF IsRaised(y) THEN y
          ELSE IF y = Zero THEN default
          ELSE TrueDiv(x, y) : x \in {numerator}, y \in {denominator}})

calculate_profitability_ratios(self) ==
    LET net_income          == Get(self.income_statement, "net_income", Zero)
        shareholders_equity == Get(self.balance_sheet, "shareholders_equity", Zero)
        total_assets        == Get(self.balance_sheet, "total_assets", Zero)
        revenue             == Get(self.income_statement, "revenue", Zero)
        cogs                == Get(self.income_statement, "cost_of_goods_sold", Zero)
        gross_profit        == RSub(revenue, cogs)
        operating_income    == Get(self.income_statement, "operating_income", Zero)
    IN  Returns([roe              |-> safe_divide(net_income, shareholders_equity, Zero),
                 roa              |-> safe_divide(net_income, total_assets, Zero),
                 gross_margin     |-> safe_divide(gross_profit, revenue, Zero),
                 operating_margin |-> safe_divide(operating_income, revenue, Zero),
                 net_margin       |-> safe_divide(net_income, revenue, Zero)])

\* calculate_liquidity_ratios with the inventory left in the quick assets
liquidity_ratios_keeping_inventory(self) ==
    LET current_assets      == Get(self.balance_sheet, "current_assets", Zero)
        current_liabilities == Get(self.balance_sheet, "current_liabilities", Zero)
        cash                == Get(self.balance_sheet, "cash_and_equivalents", Zero)
    IN  Returns([current_ratio |-> safe_divide(current_assets, current_liabilities, Zero),
                 quick_ratio   |-> safe_divide(current_assets, current_liabilities, Zero),
                 cash_ratio    |-> safe_divide(cash, current_liabilities, Zero)])

calculate_liquidity_ratios(self) ==
    LET current_assets      == Get(self.balance_sheet, "current_assets", Zero)
        current_liabilities == Get(self.balance_sheet, "current_liabilities", Zero)
        inventory           == Get(self.balance_sheet, "inventory", Zero)
        quick_assets        == RSub(current_assets, inventory)
        cash                == Get(self.balance_sheet, "cash_and_equivalents", Zero)
    IN  Returns([current_ratio |-> safe_divide(current_assets, current_liabilities, Zero),
                 quick_ratio   |-> safe_divide(quick_assets, current_liabilities, Zero),
                 cash_ratio    |-> safe_divide(cash, current_liabilities, Zero)])

calculate_leverage_ratios(self) ==
    LET total_debt           == Get(self.balance_sheet, "total_debt", Zero)
        shareholders_equity  == Get(self.balance_sheet, "shareholders_equity", Zero)
        ebit                 == Get(self.income_statement, "ebit", Zero)
        interest_expense     == Get(self.income_statement, "interest_expense", Zero)
        net_operating_income == Get(self.income_statement, "operating_income", Zero)
        total_debt_service   ==
            RAdd(interest_expense,
                 Get(self.balance_sheet, "current_portion_long_term_debt", Zero))
    IN  Returns([debt_to_equity        |-> safe_divide(total_debt, shareholders_equity, Zero),
                 interest_coverage     |-> safe_divide(ebit, interest_expense, Zero),
                 debt_service_coverage |->
                     safe_divide(net_operating_income, total_debt_service, Zero)])

\* calculate_efficiency_ratios with self.balance_sheet["inventory"] where the
\* code has self.balance_sheet.get("inventory", 0): a missing field raises
efficiency_ratios_subscripting(self) ==
    LET revenue              == Get(self.income_statement, "revenue", Zero)
        total_assets         == Get(self.balance_sheet, "total_assets", Zero)
        cogs                 == Get(self.income_statement, "cost_of_goods_sold", Zero)
        inventory            == Get(self.balance_sheet, "inventory", Raised("KeyError"))
        accounts_receivable  == Get(self.balance_sheet, "accounts_receivable", Zero)
        receivables_turnover == safe_divide(revenue, accounts_receivable, Zero)
    IN  Returns([asset_turnover         |-> safe_divide(revenue, total_assets, Zero),
                 inventory_turnover     |-> safe_divide(cogs, inventory, Zero),
                 receivables_turnover   |-> receivables_turnover,
                 days_sales_outstanding |-> safe_divide(R(365), receivables_turnover, Zero)])

calculate_efficiency_ratios(self) ==
    LET revenue              == Get(self.income_statement, "revenue", Zero)
        total_assets         == Get(self.balance_sheet, "total_assets", Zero)
        cogs                 == Get(self.income_statement, "cost_of_goods_sold", Zero)
        inventory            == Get(self.balance_sheet, "inventory", Zero)
        accounts_receivable  == Get(self.balance_sheet, "accounts_receivable", Zero)
        receivables_turnover == safe_divide(revenue, accounts_receivable, Zero)
    IN  Returns([asset_turnover         |-> safe_divide(revenue, total_assets, Zero),
                 inventory_turnover     |-> safe_divide(cogs, inventory, Zero),
                 receivables_turnover   |-> receivables_turnover,
                 days_sales_outstanding |-> safe_divide(R(365), receivables_turnover, Zero)])

\* line 163 with >= where the code has >
peg_applicable_from_zero(earnings_growth) == RGe(earnings_growth, Zero)

\* line 163: if earnings_growth > 0
peg_applicable(earnings_growth) == RGt(earnings_growth, Zero)

calculate_valuation_ratios(self) ==
    LET share_price          == Get(self.market_data, "share_price", Zero)
        shares_outstanding   == Get(self.market_data, "shares_outstanding", Zero)
        market_cap           == RMul(share_price, shares_outstanding)
        net_income           == Get(self.income_statement, "net_income", Zero)
        eps                  == safe_divide(net_income, shares_outstanding, Zero)
        book_value           == Get(self.balance_sheet, "shareholders_equity", Zero)
        book_value_per_share == safe_divide(book_value, shares_outstanding, Zero)
        revenue              == Get(self.income_statement, "revenue", Zero)
        ebitda               == Get(self.income_statement, "ebitda", Zero)
        total_debt           == Get(self.balance_sheet, "total_debt", Zero)
        cash                 == Get(self.balance_sheet, "cash_and_equivalents", Zero)
        enterprise_value     == RSub(RAdd(market_cap, total_debt), cash)
        earnings_growth      == Get(self.market_data, "earnings_growth_rate", Zero)
        pe_ratio             == safe_divide(share_price, eps, Zero)
        always  == [pe_ratio             |-> pe_ratio,
                    eps                  |-> eps,
                    pb_ratio             |-> safe_divide(share_price, book_value_per_share, Zero),
                    book_value_per_share |-> book_value_per_share,
                    ps_ratio             |-> safe_divide(market_cap, revenue, Zero),
                    ev_to_ebitda         |-> safe_divide(enterprise_value, ebitda, Zero)]
    IN  Returns(IF peg_applicable(earnings_growth)
                THEN Put(always, "peg_ratio",
                         safe_divide(pe_ratio, RMul(earnings_growth, R(100)), Zero))
                ELSE always)

\* calculate_all_ratios that stores its result under four category keys,
\* the valuation ratios merged into the efficiency category
all_ratios_in_four_categories(self) ==
    LET efficiency == calculate_efficiency_ratios(self)
        valuation  == calculate_valuation_ratios(self)
    IN  [ret  |-> Returns([profitability |-> calculate_profitability_ratios(self),
                           liquidity     |-> calculate_liquidity_ratios(self),
                           leverage      |-> calculate_leverage_ratios(self),
                           efficiency    |->
                               IF IsRaised(efficiency) THEN efficiency
                               ELSE IF IsRaised(valuation) THEN valuation
                               ELSE [name \in DOMAIN efficiency \cup DOMAIN valuation |->
                                        IF name \in DOMAIN valuation THEN valuation[name]
                                        ELSE efficiency[name]]]),
         self |-> self]

\* calculate_all_ratios whose valuation step takes the growth rate out of
\* self.market_data (dict.pop where the code has dict.get)
all_ratios_popping_growth_rate(self) ==
    [ret  |-> Returns([profitability |-> calculate_profitability_ratios(self),
                       liquidity     |-> calculate_liquidity_ratios(self),
                       leverage      |-> calculate_leverage_ratios(self),
                       efficiency    |-> calculate_efficiency_ratios(self),
                       valuation     |-> calculate_valuation_ratios(self)]),
     self |-> [self EXCEPT !.market_data = Del(@, "earnings_growth_rate")]]

\* calculate_all_ratios: what it returns (or raises), and the calculator after
\* the call.  The five methods only read self, so self is left as it was.
calculate_all_ratios(self) ==
    LET profitability == calculate_profitability_ratios(self)
        liquidity     == calculate_liquidity_ratios(self)
        leverage      == calculate_leverage_ratios(self)
        efficiency    == calculate_efficiency_ratios(self)
        valuation     == calculate_valuation_ratios(self)
    IN  [ret  |-> Returns([profitability |-> profitability,
                           liquidity     |-> liquidity,
                           leverage      |-> leverage,
                           efficiency    |-> efficiency,
                           valuation     |-> valuation]),
         self |-> self]

\* f"{value:.<digits>f}": the sign and the digits printed, the value rounded
\* to the nearest multiple of 10^-digits (a tie to the even one)
Pow10(digits) == IF digits = 1 THEN 10 ELSE 100

Rounded(x) ==
    LET whole == x.n \div x.d
        rest  == x.n % x.d
    IN  IF 2 * rest < x.d THEN whole
        ELSE IF 2 * rest > x.d THEN whole + 1
        ELSE IF whole % 2 = 0 THEN whole ELSE whole + 1

Fixed(value, digits) ==
    Only({IF ~IsNum(v) THEN v
          ELSE [negative |-> v.n < 0, units |-> Rounded(RMul(RAbs(v), R(Pow10(digits)))),
                digits |-> digits] : v \in {value}})

\* FinancialRatioCalculator.interpret_ratio (the calculator's own one-line
\* reading of a ratio, not RatioInterpreter's)
calculator_interpret_ratio(ratio_name, value) ==
    CASE ratio_name = "current_ratio" ->
            IF RGt(value, R(2)) THEN "Strong liquidity"
            ELSE IF RGt(value, Norm(3, 2)) THEN "Adequate liquidity"
            ELSE IF RGt(value, R(1)) THEN "Potential liquidity concerns"
            ELSE "Liquidity issues"
      [] ratio_name = "debt_to_equity" ->
            IF RLt(value, Norm(1, 2)) THEN "Low leverage"
            ELSE IF RLt(value, R(1)) THEN "Moderate leverage"
            ELSE IF RLt(value, R(2)) THEN "High leverage"
            ELSE "Very high leverage"
      [] ratio_name = "roe" ->
            IF RGt(value, Norm(20, 100)) THEN "Excellent returns"
            ELSE IF RGt(value, Norm(15, 100)) THEN "Good returns"
            ELSE IF RGt(value, Norm(10, 100)) THEN "Average returns"
            ELSE IF RGt(value, Zero) THEN "Below average returns"
            ELSE "Negative returns"
      [] ratio_name = "pe_ratio" ->
            IF RLt(Zero, value) /\ RLt(value, R(15)) THEN "Potentially undervalued"
            ELSE IF RLe(R(15), value) /\ RLt(value, R(25)) THEN "Fair value"
            ELSE IF RLe(R(25), value) /\ RLt(value, R(40)) THEN "Growth premium"
            ELSE IF RGe(value, R(40)) THEN "High valuation"
            ELSE IF RLe(value, Zero) THEN "N/A (negative earnings)"
            ELSE "N/A"
      [] OTHER -> "No interpretation available"

format_ratio(name, value, format_type) ==
    CASE format_type = "percentage" -> <<Fixed(RMul(value, R(100)), 2), "%">>
      [] format_type = "times"      -> <<Fixed(value, 2), "x">>
      [] format_type = "days"       -> <<Fixed(value, 1), " days">>
      [] format_type = "currency"   -> <<"$", Fixed(value, 2)>>
      [] OTHER                      -> <<Fixed(value, 2)>>

\* d[key]
Item(d, key) == Only({IF key \in DOMAIN x THEN x[key] ELSE Raised("KeyError") : x \in {d}})

\* the first exception among the values of sequence s
FirstRaised(s) ==
    s[CHOOSE i \in 1..Len(s) : IsRaised(s[i]) /\ \A j \in 1..(i - 1) : ~IsRaised(s[j])]

\* generate_summary: [text |-> the sentences joined, in order]; a sentence is
\* the record of what its f-string prints
generate_summary(rs) ==
    LET prof == Get(rs, "profitability", EmptyDict)
        liq  == Get(rs, "liquidity", EmptyDict)
        lev  == Get(rs, "leverage", EmptyDict)
        val  == Get(rs, "valuation", EmptyDict)
        roe  == Item(prof, "roe")
        cr   == Item(liq, "current_ratio")
        de   == Item(lev, "debt_to_equity")
        pe   == Item(val, "pe_ratio")
        s1 == IF RGt(Get(prof, "roe", Zero), Zero)
              THEN <<[metric |-> "ROE", shown |-> Fixed(RMul(roe, R(100)), 1),
                      reads |-> IF RGt(roe, Norm(15, 100)) THEN "strong" ELSE "moderate"]>>
              ELSE <<>>
        s2 == IF RGt(Get(liq, "current_ratio", Zero), Zero)
              THEN <<[metric |-> "Current ratio", shown |-> Fixed(cr, 2),
                      reads |-> IF RGt(cr, Norm(3, 2)) THEN "good liquidity position"
                                ELSE "potential liquidity concerns"]>>
              ELSE <<>>
        s3 == IF RGe(Get(lev, "debt_to_equity", Zero), Zero)
              THEN IF IsRaised(de) THEN <<de>>
                   ELSE <<[metric |-> "Debt-to-equity", shown |-> Fixed(de, 2),
                           reads |-> IF RLt(de, Norm(1, 2)) THEN "conservative"
                                     ELSE IF RLt(de, R(1)) THEN "moderate" ELSE "high"]>>
              ELSE <<>>
        s4 == IF RGt(Get(val, "pe_ratio", Zero), Zero)
              THEN <<[metric |-> "P/E ratio", shown |-> Fixed(pe, 1),
                      reads |-> IF RLt(pe, R(15)) THEN "a discount"
                                ELSE IF RLt(pe, R(25)) THEN "fair value" ELSE "a premium"]>>
              ELSE <<>>
        summary_parts == s1 \o s2 \o s3 \o s4
    IN  IF summary_parts = <<>>
        THEN [text |-> <<[metric |-> "Insufficient data for summary.", shown |-> None,
                          reads |-> ""]>>]
        ELSE IF \E i \in 1..Len(summary_parts) : IsRaised(summary_parts[i])
        THEN FirstRaised(summary_parts)
        ELSE [text |-> summary_parts]

\* the caller's record after a call that left the calculator as self: the
\* sub-tables the calculator shares with the record are the same objects
Shared(data, self) ==
    [t \in DOMAIN data |-> IF t \in self.shared THEN self[t] ELSE data[t]]

\* calculate_ratios_from_data, after calculator = FinancialRatioCalculator(...)
\* returned made and ratios = calculator.calculate_all_ratios() returned done
ratios_from_data(made, done) ==
    LET rs == done.ret
        interpretations ==
            [category \in DOMAIN rs |->
                [ratio_name \in DOMAIN rs[category] |->
                    [value          |-> rs[category][ratio_name],
                     formatted      |-> format_ratio(ratio_name, rs[category][ratio_name],
                                                     "ratio"),
                     interpretation |-> calculator_interpret_ratio(
                                            ratio_name, rs[category][ratio_name])]]]
    IN  [ret |-> IF IsRaised(rs) THEN rs
                 ELSE Only({IF IsRaised(summary) THEN summary
                            ELSE [ratios |-> rs, interpretations |-> interpretations,
                                  summary |-> summary] :
                            summary \in {generate_summary(rs)}}),
         financial_data |-> Shared(made.financial_data, done.self)]

\* calculate_ratios_from_data: what it returns (or raises), and the caller's
\* record after the call
calculate_ratios_from_data(data) ==
    Only({Only({ratios_from_data(made, done) : done \in {calculate_all_ratios(made.self)}}) :
          made \in {FinancialRatioCalculator(data)}})

\* ------------------------------------------------------------------------
\* interpret_ratios.py: RatioInterpreter
\* ------------------------------------------------------------------------
\* An industry name is a string the code transforms (str.lower), so it is a
\* sequence of characters.
Letters ==
    <<<<"a", "A">>, <<"b", "B">>, <<"c", "C">>, <<"d", "D">>, <<"e", "E">>,
      <<"f", "F">>, <<"g", "G">>, <<"h", "H">>, <<"i", "I">>, <<"j", "J">>,
      <<"k", "K">>, <<"l", "L">>, <<"m", "M">>, <<"n", "N">>, <<"o", "O">>,
      <<"p", "P">>, <<"q", "Q">>, <<"r", "R">>, <<"s", "S">>, <<"t", "T">>,
      <<"u", "U">>, <<"v", "V">>, <<"w", "W">>, <<"x", "X">>, <<"y", "Y">>,
      <<"z", "Z">>>>

\* str.lower on one character: an upper-case letter becomes its lower-case
\* letter, anything else stays
LowerChar(c) ==
    IF \E i \in 1..Len(Letters) : Letters[i][2] = c
    THEN Letters[CHOOSE i \in 1..Len(Letters) : Letters[i][2] = c][1]
    ELSE c

\* the name looked up as it was passed, str.lower left out
as_passed(str) == str

\* str.lower
lower(str) == [i \in 1..Len(str) |-> LowerChar(str[i])]

technology    == <<"t", "e", "c", "h", "n", "o", "l", "o", "g", "y">>
retail        == <<"r", "e", "t", "a", "i", "l">>
financial     == <<"f", "i", "n", "a", "n", "c", "i", "a", "l">>
manufacturing == <<"m", "a", "n", "u", "f", "a", "c", "t", "u", "r", "i", "n", "g">>
healthcare    == <<"h", "e", "a", "l", "t", "h", "c", "a", "r", "e">>
general       == <<"g", "e", "n", "e", "r", "a", "l">>
aerospace     == <<"a", "e", "r", "o", "s", "p", "a", "c", "e">>

\* a band of tiers, thresholds written in hundredths as the literals are
Tiers(excellent, good, acceptable, poor) ==
    [excellent |-> Norm(excellent, 100), good |-> Norm(good, 100),
     acceptable |-> Norm(acceptable, 100), poor |-> Norm(poor, 100)]

PeTiers(undervalued, fair, growth, expensive) ==
    [undervalued |-> R(undervalued), fair |-> R(fair), growth |-> R(growth),
     expensive |-> R(expensive)]

\* the class attribute BENCHMARKS as the source writes it
BENCHMARKS ==
    [industry \in {technology, retail, financial, manufacturing, healthcare} |->
        CASE industry = technology ->
                [current_ratio  |-> Tiers(250, 180, 120, 100),
                 debt_to_equity |-> Tiers(30, 50, 100, 200),
                 roe            |-> Tiers(25, 18, 12, 8),
                 gross_margin   |-> Tiers(70, 50, 35, 20),
                 pe_ratio       |-> PeTiers(15, 25, 35, 50)]
          [] industry = retail ->
                [current_ratio  |-> Tiers(200, 150, 100, 80),
                 debt_to_equity |-> Tiers(50, 80, 150, 250),
                 roe            |-> Tiers(20, 15, 10, 5),
                 gross_margin   |-> Tiers(40, 30, 20, 10),
                 pe_ratio       |-> PeTiers(12, 18, 25, 35)]
          [] industry = financial ->
                [current_ratio  |-> Tiers(150, 120, 100, 80),
                 debt_to_equity |-> Tiers(100, 200, 400, 600),
                 roe            |-> Tiers(15, 12, 8, 5),
                 pe_ratio       |-> PeTiers(10, 15, 20, 30)]
          [] industry = manufacturing ->
                [current_ratio  |-> Tiers(220, 170, 130, 100),
                 debt_to_equity |-> Tiers(40, 70, 120, 200),
                 roe            |-> Tiers(18, 14, 10, 6),
                 gross_margin   |-> Tiers(35, 25, 18, 12),
                 pe_ratio       |-> PeTiers(14, 20, 28, 40)]
          [] industry = healthcare ->
                [current_ratio  |-> Tiers(230, 180, 140, 100),
                 debt_to_equity |-> Tiers(30, 60, 100, 180),
                 roe            |-> Tiers(22, 16, 11, 7),
                 gross_margin   |-> Tiers(65, 45, 30, 20),
                 pe_ratio       |-> PeTiers(18, 28, 40, 55)]]

\* the general band set with the excellent and good thresholds of roe
\* exchanged
general_benchmarks_unordered ==
    [current_ratio  |-> Tiers(200, 150, 100, 80),
     debt_to_equity |-> Tiers(50, 100, 150, 250),
     roe            |-> Tiers(15, 20, 10, 5),
     gross_margin   |-> Tiers(40, 30, 20, 10),
     pe_ratio       |-> PeTiers(15, 22, 30, 45)]

_get_general_benchmarks ==
    [current_ratio  |-> Tiers(200, 150, 100, 80),
     debt_to_equity |-> Tiers(50, 100, 150, 250),
     roe            |-> Tiers(20, 15, 10, 5),
     gross_margin   |-> Tiers(40, 30, 20, 10),
     pe_ratio       |-> PeTiers(15, 22, 30, 45)]

\* __init__ with BENCHMARKS.get(self.industry, {}): no fallback band set
InterpreterWithoutFallback(industry) ==
    LET lowered == lower(industry)
    IN  [industry   |-> lowered,
         benchmarks |-> Get(BENCHMARKS, lowered, EmptyDict)]

\* __init__.  self.benchmarks is the catalog's own dict for the industry when
\* the catalog has one (dict.get returns the object, not a copy), otherwise
\* the fresh dict _get_general_benchmarks built for this instance.
\* __init__ taking from the general band set each ratio the industry's own
\* band set lacks
InterpreterFillingFromGeneral(industry) ==
    LET lowered == lower(industry)
        own     == Get(catalog, lowered, _get_general_benchmarks)
    IN  [industry   |-> lowered,
         benchmarks |-> [ratio_name \in DOMAIN own \cup DOMAIN _get_general_benchmarks |->
                            IF ratio_name \in DOMAIN own THEN own[ratio_name]
                            ELSE _get_general_benchmarks[ratio_name]]]

RatioInterpreter(industry) ==
    LET lowered == lower(industry)
    IN  [industry   |-> lowered,
         benchmarks |-> Get(catalog, lowered, _get_general_benchmarks)]

\* a message: its text, and the industry name an f-string puts into it
Message(text) == [text |-> text, industry |-> <<>>]
MessageFor(text, industry) == [text |-> text, industry |-> industry]

\* _get_recommendation returning "" for a pair the table lacks
recommendation_or_blank(ratio_name, rating) ==
    LET recommendations ==
          [current_ratio |->
              [Poor |-> "Consider improving working capital management, reducing short-term debt, or increasing liquid assets",
               Acceptable |-> "Monitor liquidity closely and consider building additional cash reserves",
               Good |-> "Maintain current liquidity management practices",
               Excellent |-> "Strong liquidity position - consider productive use of excess cash"],
           debt_to_equity |->
              [Poor |-> "High leverage increases financial risk - consider debt reduction strategies",
               Acceptable |-> "Monitor debt levels and ensure adequate interest coverage",
               Good |-> "Balanced capital structure - maintain current approach",
               Excellent |-> "Conservative leverage - may consider strategic use of debt for growth"],
           roe |->
              [Poor |-> "Focus on improving operational efficiency and profitability",
               Acceptable |-> "Explore opportunities to enhance returns through operational improvements",
               Good |-> "Solid returns - continue current strategies",
               Excellent |-> "Outstanding performance - ensure sustainability of high returns"],
           pe_ratio |->
              ("Potentially Undervalued" :> "May present buying opportunity if fundamentals are solid"
               @@ "Fair Value" :> "Reasonably priced relative to industry peers"
               @@ "Growth Premium" :> "Ensure growth prospects justify premium valuation"
               @@ "Expensive" :> "Consider valuation risk - ensure fundamentals support high multiple")]
    IN  IF ratio_name \in DOMAIN recommendations
           /\ rating \in DOMAIN recommendations[ratio_name]
        THEN recommendations[ratio_name][rating]
        ELSE ""

_get_recommendation(ratio_name, rating) ==
    LET recommendations ==
          [current_ratio |->
              [Poor |-> "Consider improving working capital management, reducing short-term debt, or increasing liquid assets",
               Acceptable |-> "Monitor liquidity closely and consider building additional cash reserves",
               Good |-> "Maintain current liquidity management practices",
               Excellent |-> "Strong liquidity position - consider productive use of excess cash"],
           debt_to_equity |->
              [Poor |-> "High leverage increases financial risk - consider debt reduction strategies",
               Acceptable |-> "Monitor debt levels and ensure adequate interest coverage",
               Good |-> "Balanced capital structure - maintain current approach",
               Excellent |-> "Conservative leverage - may consider strategic use of debt for growth"],
           roe |->
              [Poor |-> "Focus on improving operational efficiency and profitability",
               Acceptable |-> "Explore opportunities to enhance returns through operational improvements",
               Good |-> "Solid returns - continue current strategies",
               Excellent |-> "Outstanding performance - ensure sustainability of high returns"],
           pe_ratio |->
              ("Potentially Undervalued" :> "May present buying opportunity if fundamentals are solid"
               @@ "Fair Value" :> "Reasonably priced relative to industry peers"
               @@ "Growth Premium" :> "Ensure growth prospects justify premium valuation"
               @@ "Expensive" :> "Consider valuation risk - ensure fundamentals support high multiple")]
    IN  IF ratio_name \in DOMAIN recommendations
           /\ rating \in DOMAIN recommendations[ratio_name]
        THEN recommendations[ratio_name][rating]
        ELSE "Continue monitoring this metric"

\* lines 96, 101, 106 with > where the code has >=
higher_is_better_strict(value, benchmark, industry) ==
    IF RGt(value, benchmark.excellent)
    THEN [rating |-> "Excellent",
          message |-> Message("Performance significantly exceeds industry standards")]
    ELSE IF RGt(value, benchmark.good)
    THEN [rating |-> "Good",
          message |-> MessageFor("Above average performance for {} industry", industry)]
    ELSE IF RGt(value, benchmark.acceptable)
    THEN [rating |-> "Acceptable", message |-> Message("Meets industry standards")]
    ELSE [rating |-> "Poor", message |-> Message("Below industry standards - attention needed")]

\* lines 96, 101, 106: value >= benchmark[tier]
higher_is_better_rating(value, benchmark, industry) ==
    IF RGe(value, benchmark.excellent)
    THEN [rating |-> "Excellent",
          message |-> Message("Performance significantly exceeds industry standards")]
    ELSE IF RGe(value, benchmark.good)
    THEN [rating |-> "Good",
          message |-> MessageFor("Above average performance for {} industry", industry)]
    ELSE IF RGe(value, benchmark.acceptable)
    THEN [rating |-> "Acceptable", message |-> Message("Meets industry standards")]
    ELSE [rating |-> "Poor", message |-> Message("Below industry standards - attention needed")]

\* lines 115, 118, 121: value <= benchmark[tier]
lower_is_better_rating(value, benchmark) ==
    IF RLe(value, benchmark.excellent)
    THEN [rating |-> "Excellent", message |-> Message("Very conservative capital structure")]
    ELSE IF RLe(value, benchmark.good)
    THEN [rating |-> "Good", message |-> Message("Healthy leverage level")]
    ELSE IF RLe(value, benchmark.acceptable)
    THEN [rating |-> "Acceptable", message |-> Message("Moderate leverage")]
    ELSE [rating |-> "Poor", message |-> Message("High leverage - potential risk")]

\* lines 130-144 with <= where the code has <
pe_rating_inclusive(value, benchmark, industry) ==
    IF RGt(value, Zero)
    THEN IF RLe(value, benchmark.undervalued)
         THEN [rating |-> "Potentially Undervalued",
               message |-> MessageFor("Trading below typical {} multiples", industry)]
         ELSE IF RLe(value, benchmark.fair)
         THEN [rating |-> "Fair Value", message |-> Message("In line with industry averages")]
         ELSE IF RLe(value, benchmark.growth)
         THEN [rating |-> "Growth Premium",
               message |-> Message("Market pricing in growth expectations")]
         ELSE [rating |-> "Expensive",
               message |-> Message("High valuation relative to industry")]
    ELSE [rating |-> "N/A", message |-> Message("")]

\* lines 130-144: the rating of a pe_ratio, left as initialised when value <= 0
pe_rating(value, benchmark, industry) ==
    IF RGt(value, Zero)
    THEN IF RLt(value, benchmark.undervalued)
         THEN [rating |-> "Potentially Undervalued",
               message |-> MessageFor("Trading below typical {} multiples", industry)]
         ELSE IF RLt(value, benchmark.fair)
         THEN [rating |-> "Fair Value", message |-> Message("In line with industry averages")]
         ELSE IF RLt(value, benchmark.growth)
         THEN [rating |-> "Growth Premium",
               message |-> Message("Market pricing in growth expectations")]
         ELSE [rating |-> "Expensive",
               message |-> Message("High valuation relative to industry")]
    ELSE [rating |-> "N/A", message |-> Message("")]

interpret_ratio(self, ratio_name, value) ==
    LET known     == ratio_name \in DOMAIN self.benchmarks
        benchmark == self.benchmarks[ratio_name]
        rated ==
            IF ~known THEN [rating |-> "N/A", message |-> Message("")]
            ELSE IF ratio_name \in {"current_ratio", "roe", "gross_margin"}
            THEN higher_is_better_rating(value, benchmark, self.industry)
            ELSE IF ratio_name = "debt_to_equity"
            THEN lower_is_better_rating(value, benchmark)
            ELSE IF ratio_name = "pe_ratio"
            THEN pe_rating(value, benchmark, self.industry)
            ELSE [rating |-> "N/A", message |-> Message("")]
    IN  [value                |-> value,
         rating               |-> rated.rating,
         message              |-> rated.message,
         recommendation       |-> _get_recommendation(ratio_name, rated.rating),
         benchmark_comparison |-> IF known THEN benchmark ELSE EmptyDict]

\* The order in which the engine inserts its keys; a dict is iterated in
\* insertion order, and every mapping the model iterates holds these keys in
\* this order.
InsertionOrder ==
    <<"profitability", "liquidity", "leverage", "efficiency", "valuation",
      "roe", "roa", "gross_margin", "operating_margin", "net_margin",
      "current_ratio", "quick_ratio", "cash_ratio",
      "debt_to_equity", "interest_coverage", "debt_service_coverage",
      "asset_turnover", "inventory_turnover", "receivables_turnover",
      "days_sales_outstanding",
      "pe_ratio", "eps", "pb_ratio", "book_value_per_share", "ps_ratio",
      "ev_to_ebitda", "peg_ratio">>

\* list(d): the keys of d in iteration order
Keys(d) == SelectSeq(InsertionOrder, LAMBDA k : k \in DOMAIN d)

RECURSIVE Flatten(_)
Flatten(ss) == IF ss = <<>> THEN <<>> ELSE Head(ss) \o Flatten(Tail(ss))

RECURSIVE Sum(_)
Sum(ns) == IF ns = <<>> THEN 0 ELSE Head(ns) + Sum(Tail(ns))

Min(a, b) == IF a < b THEN a ELSE b

\* analyze_trend without the exception for debt_to_equity (lines 216-219)
trend_without_polarity(self, ratio_name, values, periods) ==
    IF Len(values) < 2
    THEN [trend   |-> "Insufficient data",
          message |-> "Need at least 2 periods for trend analysis"]
    ELSE
    LET first_value == values[1]
        last_value  == values[Len(values)]
        change      == RSub(last_value, first_value)
        pct_change  == IF first_value # Zero
                       THEN RMul(TrueDiv(change, RAbs(first_value)), R(100))
                       ELSE Zero
        trend == IF RLt(RAbs(pct_change), R(5)) THEN "Stable"
                 ELSE IF RGt(pct_change, Zero)
                 THEN "Improving"
                 ELSE "Deteriorating"
    IN  IF periods = <<>> THEN Raised("IndexError")
        ELSE [trend      |-> trend,
              change     |-> change,
              pct_change |-> pct_change,
              message    |-> [ratio_name |-> ratio_name,
                              has   |-> IF RGt(change, Zero) THEN "increased" ELSE "decreased",
                              by    |-> Fixed(RAbs(pct_change), 1),
                              from  |-> periods[1],
                              to    |-> periods[Len(periods)]],
              values     |-> [i \in 1..Min(Len(periods), Len(values)) |->
                                 <<periods[i], values[i]>>]]

\* analyze_trend with len(values) < 1 where the code has len(values) < 2
trend_from_one_value(self, ratio_name, values, periods) ==
    IF Len(values) < 1
    THEN [trend   |-> "Insufficient data",
          message |-> "Need at least 2 periods for trend analysis"]
    ELSE
    LET first_value == values[1]
        last_value  == values[Len(values)]
        change      == RSub(last_value, first_value)
        pct_change  == IF first_value # Zero
                       THEN RMul(TrueDiv(change, RAbs(first_value)), R(100))
                       ELSE Zero
        trend == IF RLt(RAbs(pct_change), R(5)) THEN "Stable"
                 ELSE IF RGt(pct_change, Zero)
                 THEN (IF ratio_name # "debt_to_equity" THEN "Improving" ELSE "Deteriorating")
                 ELSE (IF ratio_name # "debt_to_equity" THEN "Deteriorating" ELSE "Improving")
    IN  IF periods = <<>> THEN Raised("IndexError")
        ELSE [trend      |-> trend,
              change     |-> change,
              pct_change |-> pct_change,
              message    |-> [ratio_name |-> ratio_name,
                              has   |-> IF RGt(change, Zero) THEN "increased" ELSE "decreased",
                              by    |-> Fixed(RAbs(pct_change), 1),
                              from  |-> periods[1],
                              to    |-> periods[Len(periods)]],
              values     |-> [i \in 1..Min(Len(periods), Len(values)) |->
                                 <<periods[i], values[i]>>]]

\* analyze_trend with change / abs(first_value) * 100 unguarded (line 211)
trend_dividing_by_first(self, ratio_name, values, periods) ==
    IF Len(values) < 2
    THEN [trend   |-> "Insufficient data",
          message |-> "Need at least 2 periods for trend analysis"]
    ELSE
    LET first_value == values[1]
        last_value  == values[Len(values)]
        change      == RSub(last_value, first_value)
        pct_change  == IF first_value # Zero
                       THEN RMul(TrueDiv(change, RAbs(first_value)), R(100))
                       ELSE Zero
        trend == IF RLt(RAbs(pct_change), R(5)) THEN "Stable"
                 ELSE IF RGt(pct_change, Zero)
                 THEN (IF ratio_name # "debt_to_equity" THEN "Improving" ELSE "Deteriorating")
                 ELSE (IF ratio_name # "debt_to_equity" THEN "Deteriorating" ELSE "Improving")
    IN  IF first_value = Zero THEN Raised("ZeroDivisionError")
        ELSE IF periods = <<>> THEN Raised("IndexError")
        ELSE [trend      |-> trend,
              change     |-> change,
              pct_change |-> pct_change,
              message    |-> [ratio_name |-> ratio_name,
                              has   |-> IF RGt(change, Zero) THEN "increased" ELSE "decreased",
                              by    |-> Fixed(RAbs(pct_change), 1),
                              from  |-> periods[1],
                              to    |-> periods[Len(periods)]],
              values     |-> [i \in 1..Min(Len(periods), Len(values)) |->
                                 <<periods[i], values[i]>>]]

\* analyze_trend with values[1] where the code has values[-1] (line 209)
trend_to_second_value(self, ratio_name, values, periods) ==
    IF Len(values) < 2
    THEN [trend   |-> "Insufficient data",
          message |-> "Need at least 2 periods for trend analysis"]
    ELSE
    LET first_value == values[1]
        last_value  == values[2]
        change      == RSub(last_value, first_value)
        pct_change  == IF first_value # Zero
                       THEN RMul(TrueDiv(change, RAbs(first_value)), R(100))
                       ELSE Zero
        trend == IF RLt(RAbs(pct_change), R(5)) THEN "Stable"
                 ELSE IF RGt(pct_change, Zero)
                 THEN (IF ratio_name # "debt_to_equity" THEN "Improving" ELSE "Deteriorating")
                 ELSE (IF ratio_name # "debt_to_equity" THEN "Deteriorating" ELSE "Improving")
    IN  IF periods = <<>> THEN Raised("IndexError")
        ELSE [trend      |-> trend,
              change     |-> change,
              pct_change |-> pct_change,
              message    |-> [ratio_name |-> ratio_name,
                              has   |-> IF RGt(change, Zero) THEN "increased" ELSE "decreased",
                              by    |-> Fixed(RAbs(pct_change), 1),
                              from  |-> periods[1],
                              to    |-> periods[Len(periods)]],
              values     |-> [i \in 1..Min(Len(periods), Len(values)) |->
                                 <<periods[i], values[i]>>]]

\* analyze_trend: the message is the record of what its f-string prints
analyze_trend(self, ratio_name, values, periods) ==
    IF Len(values) < 2
    THEN [trend   |-> "Insufficient data",
          message |-> "Need at least 2 periods for trend analysis"]
    ELSE
    LET first_value == values[1]
        last_value  == values[Len(values)]
        change      == RSub(last_value, first_value)
        pct_change  == IF first_value # Zero
                       THEN RMul(TrueDiv(change, RAbs(first_value)), R(100))
                       ELSE Zero
        trend == IF RLt(RAbs(pct_change), R(5)) THEN "Stable"
                 ELSE IF RGt(pct_change, Zero)
                 THEN (IF ratio_name # "debt_to_equity" THEN "Improving" ELSE "Deteriorating")
                 ELSE (IF ratio_name # "debt_to_equity" THEN "Deteriorating" ELSE "Improving")
    IN  IF periods = <<>> THEN Raised("IndexError")
        ELSE [trend      |-> trend,
              change     |-> change,
              pct_change |-> pct_change,
              message    |-> [ratio_name |-> ratio_name,
                              has   |-> IF RGt(change, Zero) THEN "increased" ELSE "decreased",
                              by    |-> Fixed(RAbs(pct_change), 1),
                              from  |-> periods[1],
                              to    |-> periods[Len(periods)]],
              values     |-> [i \in 1..Min(Len(periods), Len(values)) |->
                                 <<periods[i], values[i]>>]]

\* str.title on an industry name (a single word here): the first letter
\* upper-case, the others lower-case
UpperChar(c) ==
    IF \E i \in 1..Len(Letters) : Letters[i][1] = c
    THEN Letters[CHOOSE i \in 1..Len(Letters) : Letters[i][1] = c][2]
    ELSE c

title(str) ==
    [i \in 1..Len(str) |-> IF i = 1 THEN UpperChar(str[i]) ELSE LowerChar(str[i])]

\* generate_report without the isinstance(value, (int, float)) test of line
\* 250: interpret_ratio compares, and f"{value:.2f}" formats, whatever the
\* entry holds
report_without_type_check(self, rs) ==
    IF \E c \in DOMAIN rs : \E k \in DOMAIN rs[c] : ~IsNum(rs[c][k])
    THEN Raised("TypeError")
    ELSE
    [title  |-> [text |-> "Financial Analysis Report - {} Industry Context",
                 industry |-> title(self.industry)],
     blocks |->
        LET cats == Keys(rs)
        IN  [c \in 1..Len(cats) |->
                LET category_ratios == rs[cats[c]]
                    names == SelectSeq(Keys(category_ratios),
                                       LAMBDA k : IsNum(category_ratios[k]))
                IN  [heading |-> [upper |-> cats[c]],
                     entries |->
                        [r \in 1..Len(names) |->
                            LET it == interpret_ratio(self, names[r],
                                                      category_ratios[names[r]])
                            IN  [name     |-> [replace_title |-> names[r]],
                                 value    |-> Fixed(category_ratios[names[r]], 2),
                                 rating   |-> it.rating,
                                 analysis |-> it.message,
                                 action   |-> it.recommendation]]]]]

\* generate_report: the title line, then per category its heading and one
\* entry of five lines per numeric ratio
generate_report(self, rs) ==
    [title  |-> [text |-> "Financial Analysis Report - {} Industry Context",
                 industry |-> title(self.industry)],
     blocks |->
        LET cats == Keys(rs)
        IN  [c \in 1..Len(cats) |->
                LET category_ratios == rs[cats[c]]
                    names == SelectSeq(Keys(category_ratios),
                                       LAMBDA k : IsNum(category_ratios[k]))
                IN  [heading |-> [upper |-> cats[c]],
                     entries |->
                        [r \in 1..Len(names) |->
                            LET it == interpret_ratio(self, names[r],
                                                      category_ratios[names[r]])
                            IN  [name     |-> [replace_title |-> names[r]],
                                 value    |-> Fixed(category_ratios[names[r]], 2),
                                 rating   |-> it.rating,
                                 analysis |-> it.message,
                                 action   |-> it.recommendation]]]]]

\* score_map.get(rating, 0) where the code has score_map.get(rating, 2)
ScoreDefaultingToZero(rating) ==
    CASE rating = "Excellent" -> 4
      [] rating = "Good" -> 3
      [] rating = "Acceptable" -> 2
      [] rating = "Poor" -> 1
      [] rating = "Fair Value" -> 3
      [] rating = "Potentially Undervalued" -> 3
      [] rating = "Growth Premium" -> 2
      [] rating = "Expensive" -> 1
      [] OTHER -> 0

Score(rating) ==
    CASE rating = "Excellent" -> 4
      [] rating = "Good" -> 3
      [] rating = "Acceptable" -> 2
      [] rating = "Poor" -> 1
      [] rating = "Fair Value" -> 3
      [] rating = "Potentially Undervalued" -> 3
      [] rating = "Growth Premium" -> 2
      [] rating = "Expensive" -> 1
      [] OTHER -> 2

\* the (category, ratio) pairs of a nested mapping in iteration order
Entries(nested) ==
    LET cats == Keys(nested)
    IN  Flatten([c \in 1..Len(cats) |->
                    LET names == Keys(nested[cats[c]])
                    IN  [r \in 1..Len(names) |-> <<cats[c], names[r]>>]])

\* _assess_overall_health with sum(scores) / len(scores) unguarded (line 335)
health_dividing_by_count(current_analysis) ==
    LET rated   == SelectSeq(Entries(current_analysis),
                             LAMBDA e : "rating" \in DOMAIN current_analysis[e[1]][e[2]])
        ratings == [i \in 1..Len(rated) |-> current_analysis[rated[i][1]][rated[i][2]].rating]
        scores  == [i \in 1..Len(ratings) |-> Score(ratings[i])]
        avg_score == Norm(Sum(scores), Len(scores))
        health ==
            IF RGe(avg_score, Norm(35, 10))
            THEN [status |-> "Excellent",
                  message |-> "Company shows strong financial health across most metrics"]
            ELSE IF RGe(avg_score, Norm(25, 10))
            THEN [status |-> "Good",
                  message |-> "Overall healthy financial position with some areas for improvement"]
            ELSE IF RGe(avg_score, Norm(15, 10))
            THEN [status |-> "Fair",
                  message |-> "Mixed financial indicators - attention needed in several areas"]
            ELSE [status |-> "Poor",
                  message |-> "Significant financial challenges requiring immediate attention"]
    IN  IF Len(scores) = 0 THEN Raised("ZeroDivisionError") ELSE
        [status |-> health.status, message |-> health.message,
         score |-> <<Fixed(avg_score, 1), "/4.0">>]

_assess_overall_health(current_analysis) ==
    LET rated   == SelectSeq(Entries(current_analysis),
                             LAMBDA e : "rating" \in DOMAIN current_analysis[e[1]][e[2]])
        ratings == [i \in 1..Len(rated) |-> current_analysis[rated[i][1]][rated[i][2]].rating]
        scores  == [i \in 1..Len(ratings) |-> Score(ratings[i])]
        avg_score == IF Len(scores) > 0 THEN Norm(Sum(scores), Len(scores)) ELSE Zero
        health ==
            IF RGe(avg_score, Norm(35, 10))
            THEN [status |-> "Excellent",
                  message |-> "Company shows strong financial health across most metrics"]
            ELSE IF RGe(avg_score, Norm(25, 10))
            THEN [status |-> "Good",
                  message |-> "Overall healthy financial position with some areas for improvement"]
            ELSE IF RGe(avg_score, Norm(15, 10))
            THEN [status |-> "Fair",
                  message |-> "Mixed financial indicators - attention needed in several areas"]
            ELSE [status |-> "Poor",
                  message |-> "Significant financial challenges requiring immediate attention"]
    IN  [status |-> health.status, message |-> health.message,
         score |-> <<Fixed(avg_score, 1), "/4.0">>]

\* _generate_key_recommendations returning recommendations, not recommendations[:5]
recommendations_untruncated(analysis) ==
    LET ca    == analysis.current_analysis
        poor  == SelectSeq(Entries(ca),
                           LAMBDA e : Get(ca[e[1]][e[2]], "rating", "") = "Poor")
        trends == Get(analysis, "trend_analysis", EmptyDict)
        falling == SelectSeq(Keys(trends),
                             LAMBDA k : Get(trends[k], "trend", "") = "Deteriorating")
        recommendations ==
            [i \in 1..Len(poor) |->
                [kind |-> "Priority: Address", ratio_name |-> poor[i][2],
                 text |-> Get(ca[poor[i][1]][poor[i][2]], "recommendation", "")]]
            \o [i \in 1..Len(falling) |->
                [kind |-> "Monitor:", ratio_name |-> falling[i],
                 text |-> "showing negative trend"]]
        filled ==
            IF recommendations = <<>>
            THEN <<[kind |-> "", ratio_name |-> "",
                    text |-> "Continue current financial management practices"],
                   [kind |-> "", ratio_name |-> "",
                    text |-> "Consider strategic growth opportunities"]>>
            ELSE recommendations
    IN  filled

\* _generate_key_recommendations with "Expensive" taken as a critical issue too
recommendations_counting_expensive(analysis) ==
    LET ca    == analysis.current_analysis
        poor  == SelectSeq(Entries(ca),
                           LAMBDA e : Get(ca[e[1]][e[2]], "rating", "") \in {"Poor", "Expensive"})
        trends == Get(analysis, "trend_analysis", EmptyDict)
        falling == SelectSeq(Keys(trends),
                             LAMBDA k : Get(trends[k], "trend", "") = "Deteriorating")
        recommendations ==
            [i \in 1..Len(poor) |->
                [kind |-> "Priority: Address", ratio_name |-> poor[i][2],
                 text |-> Get(ca[poor[i][1]][poor[i][2]], "recommendation", "")]]
            \o [i \in 1..Len(falling) |->
                [kind |-> "Monitor:", ratio_name |-> falling[i],
                 text |-> "showing negative trend"]]
        filled ==
            IF recommendations = <<>>
            THEN <<[kind |-> "", ratio_name |-> "",
                    text |-> "Continue current financial management practices"],
                   [kind |-> "", ratio_name |-> "",
                    text |-> "Consider strategic growth opportunities"]>>
            ELSE recommendations
    IN  SubSeq(filled, 1, Min(5, Len(filled)))

_generate_key_recommendations(analysis) ==
    LET ca    == analysis.current_analysis
        poor  == SelectSeq(Entries(ca),
                           LAMBDA e : Get(ca[e[1]][e[2]], "rating", "") = "Poor")
        trends == Get(analysis, "trend_analysis", EmptyDict)
        falling == SelectSeq(Keys(trends),
                             LAMBDA k : Get(trends[k], "trend", "") = "Deteriorating")
        recommendations ==
            [i \in 1..Len(poor) |->
                [kind |-> "Priority: Address", ratio_name |-> poor[i][2],
                 text |-> Get(ca[poor[i][1]][poor[i][2]], "recommendation", "")]]
            \o [i \in 1..Len(falling) |->
                [kind |-> "Monitor:", ratio_name |-> falling[i],
                 text |-> "showing negative trend"]]
        filled ==
            IF recommendations = <<>>
            THEN <<[kind |-> "", ratio_name |-> "",
                    text |-> "Continue current financial management practices"],
                   [kind |-> "", ratio_name |-> "",
                    text |-> "Consider strategic growth opportunities"]>>
            ELSE recommendations
    IN  SubSeq(filled, 1, Min(5, Len(filled)))

\* perform_comprehensive_analysis assessing the health from the trend labels
analysis_scoring_trends(rs, industry, historical_data) ==
    LET self == RatioInterpreter(industry)
        current_analysis ==
            [category \in DOMAIN rs |->
                [ratio_name \in {k \in DOMAIN rs[category] : IsNum(rs[category][k])} |->
                    interpret_ratio(self, ratio_name, rs[category][ratio_name])]]
        has_history == historical_data # None /\ DOMAIN historical_data # {}
        trend_analysis ==
            IF has_history
            THEN [ratio_name \in {k \in DOMAIN historical_data :
                                    /\ "values" \in DOMAIN historical_data[k]
                                    /\ "periods" \in DOMAIN historical_data[k]} |->
                     analyze_trend(self, ratio_name, historical_data[ratio_name].values,
                                   historical_data[ratio_name].periods)]
            ELSE EmptyDict
        analysis == [current_analysis |-> current_analysis,
                     trend_analysis   |-> trend_analysis]
    IN  IF IsRaised(Returns(trend_analysis)) THEN Returns(trend_analysis)
        ELSE [current_analysis |-> current_analysis,
              trend_analysis   |-> trend_analysis,
              overall_health   |->
                  _assess_overall_health(
                      [profitability |->
                          [ratio_name \in DOMAIN trend_analysis |->
                              [rating |-> IF Get(trend_analysis[ratio_name], "trend", "") = "Deteriorating"
                                          THEN "Poor" ELSE "Good"]]]),
              recommendations  |-> _generate_key_recommendations(analysis),
              report           |-> generate_report(self, rs)]

\* perform_comprehensive_analysis interpreting only the ratios that have a band
analysis_of_benchmarked_only(rs, industry, historical_data) ==
    LET self == RatioInterpreter(industry)
        current_analysis ==
            [category \in DOMAIN rs |->
                [ratio_name \in {k \in DOMAIN rs[category] :
                                    IsNum(rs[category][k]) /\ k \in DOMAIN self.benchmarks} |->
                    interpret_ratio(self, ratio_name, rs[category][ratio_name])]]
        has_history == historical_data # None /\ DOMAIN historical_data # {}
        trend_analysis ==
            IF has_history
            THEN [ratio_name \in {k \in DOMAIN historical_data :
                                    /\ "values" \in DOMAIN historical_data[k]
                                    /\ "periods" \in DOMAIN historical_data[k]} |->
                     analyze_trend(self, ratio_name, historical_data[ratio_name].values,
                                   historical_data[ratio_name].periods)]
            ELSE EmptyDict
        analysis == [current_analysis |-> current_analysis,
                     trend_analysis   |-> trend_analysis]
    IN  IF IsRaised(Returns(trend_analysis)) THEN Returns(trend_analysis)
        ELSE [current_analysis |-> current_analysis,
              trend_analysis   |-> trend_analysis,
              overall_health   |-> _assess_overall_health(current_analysis),
              recommendations  |-> _generate_key_recommendations(analysis),
              report           |-> generate_report(self, rs)]

\* perform_comprehensive_analysis(ratios, industry, historical_data);
\* historical_data is None or a mapping ratio name -> {values, periods}
perform_comprehensive_analysis(rs, industry, historical_data) ==
    LET self == RatioInterpreter(industry)
        current_analysis ==
            [category \in DOMAIN rs |->
                [ratio_name \in {k \in DOMAIN rs[category] : IsNum(rs[category][k])} |->
                    interpret_ratio(self, ratio_name, rs[category][ratio_name])]]
        has_history == historical_data # None /\ DOMAIN historical_data # {}
        trend_analysis ==
            IF has_history
            THEN [ratio_name \in {k \in DOMAIN historical_data :
                                    /\ "values" \in DOMAIN historical_data[k]
                                    /\ "periods" \in DOMAIN historical_data[k]} |->
                     analyze_trend(self, ratio_name, historical_data[ratio_name].values,
                                   historical_data[ratio_name].periods)]
            ELSE EmptyDict
        analysis == [current_analysis |-> current_analysis,
                     trend_analysis   |-> trend_analysis]
    IN  IF IsRaised(Returns(trend_analysis)) THEN Returns(trend_analysis)
        ELSE [current_analysis |-> current_analysis,
              trend_analysis   |-> trend_analysis,
              overall_health   |-> _assess_overall_health(current_analysis),
              recommendations  |-> _generate_key_recommendations(analysis),
              report           |-> generate_report(self, rs)]

\* ------------------------------------------------------------------------
\* The caller of the ratio engine
\* ------------------------------------------------------------------------
\* sample_data of calculate_ratios.py
sample_data ==
    [income_statement |->
        [revenue |-> R(1000000), cost_of_goods_sold |-> R(600000),
         operating_income |-> R(200000), ebit |-> R(180000), ebitda |-> R(250000),
         interest_expense |-> R(20000), net_income |-> R(150000)],
     balance_sheet |->
        [total_assets |-> R(2000000), current_assets |-> R(800000),
         cash_and_equivalents |-> R(200000), accounts_receivable |-> R(150000),
         inventory |-> R(250000), current_liabilities |-> R(400000),
         total_debt |-> R(500000), current_portion_long_term_debt |-> R(50000),
         shareholders_equity |-> R(1500000)],
     cash_flow |->
        [operating_cash_flow |-> R(180000), investing_cash_flow |-> R(-100000),
         financing_cash_flow |-> R(-50000)],
     market_data |->
        [share_price |-> R(50), shares_outstanding |-> R(100000),
         earnings_growth_rate |-> Norm(10, 100)]]

Fields(table) == DOMAIN sample_data[table]

\* the values the caller writes into a field: zero, for the market data also
\* the sample's value, and for three fields a negative one (an interest income
\* that cancels the debt repayment, a loss, shrinking earnings)
FieldValues(table, field) ==
    {Zero}
    \cup (IF table = "market_data" THEN {sample_data[table][field]} ELSE {})
    \cup (IF field = "interest_expense" THEN {R(-50000)} ELSE {})
    \cup (IF field = "net_income" THEN {R(-150000)} ELSE {})
    \cup (IF field = "earnings_growth_rate" THEN {Norm(-10, 100)} ELSE {})

\* the (industry, historical_data) arguments the caller passes to
\* perform_comprehensive_analysis
AnalysisInputs ==
    {[industry |-> general, historical_data |-> None],
     [industry |-> <<"R", "e", "t", "a", "i", "l">>,
      historical_data |->
         [debt_to_equity |-> [values  |-> <<Norm(5, 10), Norm(8, 10)>>,
                              periods |-> <<"Q1", "Q2">>],
          roe            |-> [values  |-> <<Norm(10, 100), Norm(4, 100)>>,
                              periods |-> <<"Q1", "Q2">>]]]}

InitInterpreter ==
    /\ industry_arg = None
    /\ interpreter = None
    /\ ratio_arg = None
    /\ interpretation = None
    /\ catalog = BENCHMARKS
    /\ tampered = FALSE
    /\ writes = 0

InitEngine ==
    /\ edits = 0
    /\ calculator = None
    /\ unused = FALSE
    /\ first_ratios = None
    /\ ratios = None
    /\ repeats = {}
    /\ output = None

Init ==
    /\ financial_data \in {sample_data, EmptyDict}
    /\ InitEngine
    /\ InitInterpreter

\* the caller ends the analysis run: it drops the calculator and the results
EndRun ==
    /\ calculator' = None
    /\ unused' = FALSE
    /\ first_ratios' = None
    /\ ratios' = None
    /\ repeats' = {}

\* financial_data[table][field] = value (the sub-table created if missing)
SetField(table, field, value) ==
    /\ edits < MaxEdits
    /\ edits' = edits + 1
    /\ financial_data' =
         Put(financial_data, table, Put(Get(financial_data, table, EmptyDict), field, value))
    /\ EndRun
    /\ output' = None
    /\ UNCHANGED interpreterVars

\* del financial_data[table][field]
DelField(table, field) ==
    /\ edits < MaxEdits
    /\ table \in DOMAIN financial_data
    /\ field \in DOMAIN financial_data[table]
    /\ edits' = edits + 1
    /\ financial_data' = Put(financial_data, table, Del(financial_data[table], field))
    /\ EndRun
    /\ output' = None
    /\ UNCHANGED interpreterVars

\* del financial_data[table]
DelTable(table) ==
    /\ edits < MaxEdits
    /\ table \in DOMAIN financial_data
    /\ edits' = edits + 1
    /\ financial_data' = Del(financial_data, table)
    /\ EndRun
    /\ output' = None
    /\ UNCHANGED interpreterVars

\* calculator = FinancialRatioCalculator(financial_data)
Construct ==
    /\ \E made \in {FinancialRatioCalculator(financial_data)} :
          /\ calculator' = made.self
          /\ financial_data' = made.financial_data
    /\ unused' = TRUE
    /\ output' = None
    /\ UNCHANGED <<edits, first_ratios, ratios, repeats>>
    /\ UNCHANGED interpreterVars

\* ratios = calculator.calculate_all_ratios()
CalculateAll ==
    /\ calculator # None
    /\ \E done \in {calculate_all_ratios(calculator)} :
          /\ ratios' = done.ret
          /\ first_ratios' = IF first_ratios = None THEN done.ret ELSE first_ratios
          /\ calculator' = done.self
          /\ financial_data' = Shared(financial_data, done.self)
    /\ repeats' = IF ratios = None THEN repeats
                  ELSE repeats \cup {IF unused THEN "new calculator" ELSE "same calculator"}
    /\ unused' = FALSE
    /\ output' = None
    /\ UNCHANGED edits
    /\ UNCHANGED interpreterVars

\* output = calculate_ratios_from_data(financial_data)
CalculateRatiosFromData ==
    /\ \E done \in {calculate_ratios_from_data(financial_data)} :
          /\ output' = [call |-> "calculate_ratios_from_data",
                        args |-> [financial_data |-> financial_data],
                        ret  |-> done.ret]
          /\ financial_data' = done.financial_data
    /\ EndRun
    /\ UNCHANGED edits
    /\ UNCHANGED interpreterVars

\* output = perform_comprehensive_analysis(ratios, industry, historical_data)
PerformComprehensiveAnalysis(in) ==
    /\ ratios # None
    /\ ~IsRaised(ratios)
    /\ output' = [call |-> "perform_comprehensive_analysis",
                  args |-> [ratios |-> ratios, industry |-> in.industry,
                            historical_data |-> in.historical_data],
                  ret  |-> perform_comprehensive_analysis(ratios, in.industry,
                                                          in.historical_data)]
    /\ EndRun
    /\ UNCHANGED <<financial_data, edits>>
    /\ UNCHANGED interpreterVars

Edit ==
    \E table \in TableNames :
        \/ \E field \in Fields(table) :
              \/ \E value \in FieldValues(table, field) : SetField(table, field, value)
              \/ DelField(table, field)
        \/ DelTable(table)

Analyse == \E in \in AnalysisInputs : PerformComprehensiveAnalysis(in)

Next ==
    \/ Edit
    \/ Construct
    \/ CalculateAll
    \/ CalculateRatiosFromData
    \/ Analyse

Spec == Init /\ [][Next]_vars

\* ------------------------------------------------------------------------
\* A caller of RatioInterpreter: it builds interpreters for industry names in
\* every casing of their first MaxCased characters and in capitals, and asks
\* each to interpret ratios at, next to and far from the thresholds.
\* ------------------------------------------------------------------------
upper(str) == [i \in 1..Len(str) |-> UpperChar(str[i])]

\* the spellings of name that differ from it in the case of letters only
Casings(name) ==
    {upper(name)}
    \cup {[i \in 1..Len(name) |-> IF i \in capitals THEN UpperChar(name[i]) ELSE name[i]] :
          capitals \in SUBSET (1..MaxCased)}

SupportedIndustries == {technology, retail, financial, manufacturing, healthcare}
UnsupportedIndustries == {general, aerospace}

IndustryNames == UNION {Casings(name) : name \in SupportedIndustries \cup UnsupportedIndustries}

\* the ratio names asked about: the five that have bands, and two that have none
RatioNames ==
    {"current_ratio", "debt_to_equity", "roe", "gross_margin", "pe_ratio",
     "net_margin", "peg_ratio"}

\* the values asked about for one ratio: each threshold of its band, a
\* hundredth below and above it, zero and a negative value
ProbeValues(self, ratio_name) ==
    {Zero, R(-1)}
    \cup (IF ratio_name \in DOMAIN self.benchmarks
          THEN UNION {{threshold, RSub(threshold, Norm(1, 100)),
                       RAdd(threshold, Norm(1, 100))} :
                      threshold \in {self.benchmarks[ratio_name][tier] :
                                     tier \in DOMAIN self.benchmarks[ratio_name]}}
          ELSE {Norm(1, 10)})

InitInterp ==
    /\ financial_data = sample_data
    /\ InitEngine
    /\ InitInterpreter

\* interpreter = RatioInterpreter(industry)
NewInterpreter(industry) ==
    /\ industry_arg' = industry
    /\ interpreter' = RatioInterpreter(industry)
    /\ ratio_arg' = None
    /\ interpretation' = None
    /\ tampered' = FALSE
    /\ UNCHANGED <<catalog, writes>>
    /\ UNCHANGED engineVars

\* interpretation = interpreter.interpret_ratio(ratio_name, value)
InterpretRatio(ratio_name, value) ==
    /\ interpreter # None
    /\ ratio_arg' = ratio_name
    /\ interpretation' = interpret_ratio(interpreter, ratio_name, value)
    /\ tampered' = FALSE
    /\ UNCHANGED <<industry_arg, interpreter, catalog, writes>>
    /\ UNCHANGED engineVars

Build == \E industry \in IndustryNames : NewInterpreter(industry)

Interpret ==
    /\ interpreter # None
    /\ \E ratio_name \in RatioNames :
          \E value \in ProbeValues(interpreter, ratio_name) :
             InterpretRatio(ratio_name, value)

NextInterp ==
    \/ Build
    \/ Interpret

SpecInterp == InitInterp /\ [][NextInterp]_vars

\* ------------------------------------------------------------------------
\* A caller that writes into the interpretations it was handed, and goes on
\* building interpreters and asking for interpretations.
\* ------------------------------------------------------------------------
WriterIndustries == {technology, <<"R", "e", "t", "a", "i", "l">>, general}
WriterRatios == {"roe", "pe_ratio", "net_margin"}

\* interpretation["benchmark_comparison"][tier] = value.  The band the
\* interpretation carries is self.benchmarks[ratio_name] itself (line 89-90),
\* and that is the catalog's dict when the industry is in the catalog.
WriteBand(tier, value) ==
    /\ interpretation # None
    /\ writes < MaxWrites
    /\ writes' = writes + 1
    /\ tampered' = TRUE
    /\ interpretation' =
          [interpretation EXCEPT !.benchmark_comparison = Put(@, tier, value)]
    /\ interpreter' =
          IF ratio_arg \in DOMAIN interpreter.benchmarks
          THEN [interpreter EXCEPT !.benchmarks[ratio_arg] = Put(@, tier, value)]
          ELSE interpreter
    /\ catalog' =
          IF ratio_arg \in DOMAIN interpreter.benchmarks
             /\ interpreter.industry \in DOMAIN catalog
          THEN [catalog EXCEPT ![interpreter.industry][ratio_arg] = Put(@, tier, value)]
          ELSE catalog
    /\ UNCHANGED <<industry_arg, ratio_arg>>
    /\ UNCHANGED engineVars

\* interpretation["rating"] = rating: the dict is the call's own
WriteRating(rating) ==
    /\ interpretation # None
    /\ writes < MaxWrites
    /\ writes' = writes + 1
    /\ tampered' = TRUE
    /\ interpretation' = [interpretation EXCEPT !.rating = rating]
    /\ UNCHANGED <<industry_arg, interpreter, ratio_arg, catalog>>
    /\ UNCHANGED engineVars

BuildAgain == \E industry \in WriterIndustries : NewInterpreter(industry)

InterpretAgain ==
    /\ interpreter # None
    /\ \E ratio_name \in WriterRatios :
          \E value \in ProbeValues(interpreter, ratio_name) :
             InterpretRatio(ratio_name, value)

Write ==
    \/ \E tier \in {"excellent", "good", "fair", "growth"} : WriteBand(tier, Zero)
    \/ WriteRating("Poor")

NextWriter ==
    \/ BuildAgain
    \/ InterpretAgain
    \/ Write

SpecWriter == InitInterp /\ [][NextWriter]_vars

\* ------------------------------------------------------------------------
\* Callers of the analysis functions: each call is made once, on arguments
\* drawn from the sets below; output holds the call, ret = None until it
\* returns.
\* ------------------------------------------------------------------------
\* the sequences over S of a length up to n
SeqsUpTo(S, n) == UNION {[1..k -> S] : k \in 0..n}

Call(name, args) == [call |-> name, args |-> args, done |-> FALSE, ret |-> None]

Pending(name) == output # None /\ output.call = name /\ ~output.done
Returned(name) == output # None /\ output.call = name /\ output.done

\* 0, the spec's examples (0.5 -> 0.8, 0.10 -> 0.04), changes of 4 %, 5 %
\* and -5 % of 100, and a negative first value
TrendValues ==
    {Zero, Norm(1, 2), Norm(4, 5), Norm(1, 10), Norm(1, 25),
     R(100), R(104), R(105), R(95), R(-100)}

TrendCalls ==
    {Call("analyze_trend", [ratio_name |-> ratio_name, values |-> values, periods |-> periods]) :
        ratio_name \in {"debt_to_equity", "roe"},
        values \in SeqsUpTo(TrendValues, MaxValues),
        periods \in {<<>>, <<"Q1">>, <<"Q1", "Q2">>}}

InitCalls(calls) ==
    /\ financial_data = sample_data
    /\ edits = 0
    /\ calculator = None
    /\ unused = FALSE
    /\ first_ratios = None
    /\ ratios = None
    /\ repeats = {}
    /\ output \in calls
    /\ InitInterpreter

\* output.ret = RatioInterpreter().analyze_trend(ratio_name, values, periods)
AnalyzeTrend ==
    /\ Pending("analyze_trend")
    /\ output' = [output EXCEPT !.done = TRUE, !.ret =
                     analyze_trend(RatioInterpreter(general), output.args.ratio_name,
                                   output.args.values, output.args.periods)]
    /\ UNCHANGED <<financial_data, edits, calculator, unused, first_ratios, ratios, repeats>>
    /\ UNCHANGED interpreterVars

\* the caller drops the result
Drop ==
    /\ output # None
    /\ output.done
    /\ output' = None
    /\ UNCHANGED <<financial_data, edits, calculator, unused, first_ratios, ratios, repeats>>
    /\ UNCHANGED interpreterVars

NextTrend ==
    \/ AnalyzeTrend
    \/ Drop

InitTrend == InitCalls(TrendCalls)

SpecTrend == InitTrend /\ [][NextTrend]_vars

\* series of two values and longer, a period label for each value
SeriesValues == {Zero, Norm(1, 2), Norm(4, 5), R(100)}

PeriodLabels == <<"Q1", "Q2", "Q3", "Q4", "Q5">>

SeriesCalls ==
    {Call("analyze_trend",
          [ratio_name |-> ratio_name, values |-> values,
           periods |-> SubSeq(PeriodLabels, 1, Len(values))]) :
        ratio_name \in {"debt_to_equity", "roe"},
        values \in {vs \in SeqsUpTo(SeriesValues, MaxValues + 1) : Len(vs) >= 2}}

InitSeries == InitCalls(SeriesCalls)

SpecSeries == InitSeries /\ [][NextTrend]_vars

\* where the interpretations of an analysis sit: (category, ratio name)
Slots ==
    <<<<"profitability", "roe">>, <<"profitability", "gross_margin">>,
      <<"liquidity", "current_ratio">>, <<"leverage", "debt_to_equity">>,
      <<"valuation", "pe_ratio">>>>

\* the current_analysis holding entries[i] at Slots[i]
AnalysisOf(entries) ==
    [category \in {Slots[i][1] : i \in 1..Len(entries)} |->
        [ratio_name \in {Slots[i][2] : i \in {j \in 1..Len(entries) : Slots[j][1] = category}} |->
            entries[CHOOSE i \in 1..Len(entries) : Slots[i] = <<category, ratio_name>>]]]

\* every rating the interpreter gives, one it does not give, and an entry
\* without a rating
HealthEntries ==
    {[rating |-> rating] :
        rating \in {"Excellent", "Good", "Acceptable", "Poor", "Fair Value",
                    "Potentially Undervalued", "Growth Premium", "Expensive",
                    "N/A", "Unrated"}}
    \cup {[value |-> Zero]}

\* analyses of up to MaxRatings slots, and the analyses without any rating
HealthCalls ==
    {Call("_assess_overall_health",
          [entries |-> entries, current_analysis |-> AnalysisOf(entries)]) :
        entries \in SeqsUpTo(HealthEntries, MaxRatings)}
    \cup {Call("_assess_overall_health", [entries |-> <<>>, current_analysis |-> empty]) :
            empty \in {[profitability |-> EmptyDict],
                       [profitability |-> EmptyDict, valuation |-> EmptyDict]}}

\* output.ret = _assess_overall_health(current_analysis)
AssessOverallHealth ==
    /\ Pending("_assess_overall_health")
    /\ output' = [output EXCEPT !.done = TRUE,
                            !.ret = _assess_overall_health(output.args.current_analysis)]
    /\ UNCHANGED <<financial_data, edits, calculator, unused, first_ratios, ratios, repeats>>
    /\ UNCHANGED interpreterVars

InitHealth == InitCalls(HealthCalls)

NextHealth ==
    \/ AssessOverallHealth
    \/ Drop

SpecHealth == InitHealth /\ [][NextHealth]_vars

\* interpretations as interpret_ratio leaves them for one ratio: rated
\* Poor, Good or Expensive with the recommendation of that rating, or
\* rated Poor by a caller that set no recommendation
RatedEntries(ratio_name) ==
    {[rating |-> rating, recommendation |-> _get_recommendation(ratio_name, rating)] :
        rating \in {"Poor", "Good", "Expensive"}}
    \cup {[rating |-> "Poor"]}

\* an interpretation in each of the slots
RatedAnalyses ==
    {<<e1, e2, e3, e4, e5>> :
        e1 \in RatedEntries(Slots[1][2]), e2 \in RatedEntries(Slots[2][2]),
        e3 \in RatedEntries(Slots[3][2]), e4 \in RatedEntries(Slots[4][2]),
        e5 \in RatedEntries(Slots[5][2])}

\* trend results for none, one or both of two ratios
TrendAnalyses ==
    UNION {[names -> {[trend |-> "Deteriorating"], [trend |-> "Improving"]}] :
            names \in SUBSET {"roe", "debt_to_equity"}}

RecommendationCalls ==
    {Call("_generate_key_recommendations",
          [entries |-> entries,
           analysis |-> [current_analysis |-> AnalysisOf(entries),
                         trend_analysis |-> trend_analysis,
                         overall_health |-> _assess_overall_health(AnalysisOf(entries)),
                         recommendations |-> <<>>]]) :
        entries \in RatedAnalyses, trend_analysis \in TrendAnalyses}

\* output.ret = _generate_key_recommendations(analysis)
GenerateKeyRecommendations ==
    /\ Pending("_generate_key_recommendations")
    /\ output' = [output EXCEPT !.done = TRUE,
                            !.ret = _generate_key_recommendations(output.args.analysis)]
    /\ UNCHANGED <<financial_data, edits, calculator, unused, first_ratios, ratios, repeats>>
    /\ UNCHANGED interpreterVars

InitRecommend == InitCalls(RecommendationCalls)

NextRecommend ==
    \/ GenerateKeyRecommendations
    \/ Drop

SpecRecommend == InitRecommend /\ [][NextRecommend]_vars

\* the ratios computed from the sample record
sample_ratios == calculate_all_ratios(FinancialRatioCalculator(sample_data).self).ret

\* what a caller may put in place of a number: None, or a string
NonNumeric == {None, [str |-> "N/A"]}

\* the computed number is left in place
Kept == [kept |-> TRUE]

\* the ratio of each category that a caller may have replaced
Replaced == [profitability |-> "roe", liquidity |-> "current_ratio", valuation |-> "pe_ratio"]

\* ratios mappings: some of three categories of sample_ratios, the ratio
\* named by Replaced kept or holding a non-numeric entry
ReportRatios ==
    UNION {[categories -> {Kept} \cup NonNumeric] : categories \in SUBSET DOMAIN Replaced}

RatiosOf(choice) ==
    [category \in DOMAIN choice |->
        [ratio_name \in DOMAIN sample_ratios[category] |->
            IF ratio_name = Replaced[category] /\ choice[category] # Kept
            THEN choice[category]
            ELSE sample_ratios[category][ratio_name]]]

ReportCalls ==
    {Call("generate_report", [industry |-> industry, ratios |-> RatiosOf(choice)]) :
        industry \in {general, technology}, choice \in ReportRatios}

\* output.ret = RatioInterpreter(industry).generate_report(ratios)
GenerateReport ==
    /\ Pending("generate_report")
    /\ output' = [output EXCEPT !.done = TRUE,
                            !.ret = generate_report(RatioInterpreter(output.args.industry),
                                                    output.args.ratios)]
    /\ UNCHANGED <<financial_data, edits, calculator, unused, first_ratios, ratios, repeats>>
    /\ UNCHANGED interpreterVars

InitReport == InitCalls(ReportCalls)

NextReport ==
    \/ GenerateReport
    \/ Drop

SpecReport == InitReport /\ [][NextReport]_vars

\* the ratio generate_summary reads in each category
Summarised ==
    [profitability |-> "roe", liquidity |-> "current_ratio",
     leverage |-> "debt_to_equity", valuation |-> "pe_ratio"]

\* what a category holds for generate_summary: nothing, or its ratio at a
\* negative, zero, small or large value
SummaryCategories(category) ==
    {EmptyDict}
    \cup {[ratio_name \in {Summarised[category]} |-> value] :
            value \in {R(-1), Zero, Norm(1, 10), R(30)}}

\* ratios mappings with any of the four categories present
SummaryRatios ==
    {rs \in UNION {[categories -> UNION {SummaryCategories(c) : c \in DOMAIN Summarised}] :
                    categories \in SUBSET DOMAIN Summarised} :
        \A c \in DOMAIN rs : rs[c] \in SummaryCategories(c)}

SummaryCalls == {Call("generate_summary", [ratios |-> rs]) : rs \in SummaryRatios}

\* output.ret = generate_summary(ratios)
GenerateSummary ==
    /\ Pending("generate_summary")
    /\ output' = [output EXCEPT !.done = TRUE,
                            !.ret = generate_summary(output.args.ratios)]
    /\ UNCHANGED <<financial_data, edits, calculator, unused, first_ratios, ratios, repeats>>
    /\ UNCHANGED interpreterVars

InitSummary == InitCalls(SummaryCalls)

NextSummary ==
    \/ GenerateSummary
    \/ Drop

SpecSummary == InitSummary /\ [][NextSummary]_vars

\* a statement record of the shape of sample_data
Statement(revenue, cogs, net_income, equity, assets, liabilities, total_debt, share_price) ==
    [income_statement |->
        [revenue |-> R(revenue), cost_of_goods_sold |-> R(cogs),
         operating_income |-> R(net_income), ebit |-> R(net_income),
         ebitda |-> R(net_income), interest_expense |-> R(10),
         net_income |-> R(net_income)],
     balance_sheet |->
        [total_assets |-> R(equity + total_debt), current_assets |-> R(assets),
         cash_and_equivalents |-> R(assets), accounts_receivable |-> Zero,
         inventory |-> Zero, current_liabilities |-> R(liabilities),
         total_debt |-> R(total_debt), current_portion_long_term_debt |-> Zero,
         shareholders_equity |-> R(equity)],
     cash_flow |-> [operating_cash_flow |-> R(net_income)],
     market_data |-> [share_price |-> R(share_price), shares_outstanding |-> R(100)]]

\* the statement records handed to the pipeline: the sample, an empty
\* record, a company strong on every banded ratio, one weak on every
\* banded ratio, one making a loss
Statements ==
    {sample_data, EmptyDict,
     Statement(1000, 200, 400, 1000, 3000, 1000, 100, 40),
     Statement(1000, 990, 10, 1000, 100, 1000, 10000, 1000),
     Statement(1000, 600, -100, 1000, 1500, 1000, 800, 20)}

\* historical_data arguments with values and periods of equal length
Histories ==
    {None, EmptyDict,
     [debt_to_equity |-> [values |-> <<Norm(5, 10), Norm(8, 10)>>, periods |-> <<"Q1", "Q2">>]],
     [debt_to_equity |-> [values |-> <<Norm(5, 10), Norm(8, 10)>>, periods |-> <<"Q1", "Q2">>],
      roe |-> [values |-> <<Norm(10, 100), Norm(4, 100)>>, periods |-> <<"Q1", "Q2">>]],
     [roe |-> [values |-> <<Norm(10, 100)>>, periods |-> <<"Q1">>]],
     [roe |-> [values |-> <<Norm(10, 100), Norm(4, 100)>>]]}

PipelineIndustries ==
    {general, technology, financial, aerospace, <<"R", "e", "t", "a", "i", "l">>}

PipelineCalls ==
    {Call("perform_comprehensive_analysis",
          [financial_data |-> data, industry |-> industry, historical_data |-> historical_data]) :
        data \in Statements, industry \in PipelineIndustries, historical_data \in Histories}

\* ratios = FinancialRatioCalculator(financial_data).calculate_all_ratios();
\* output.ret = perform_comprehensive_analysis(ratios, industry, historical_data)
AnalysePipeline ==
    /\ Pending("perform_comprehensive_analysis")
    /\ \E rs \in {calculate_all_ratios(FinancialRatioCalculator(output.args.financial_data).self).ret} :
          output' = [output EXCEPT
                        !.done = TRUE,
                        !.ret = [ratios |-> rs,
                                 analysis |-> perform_comprehensive_analysis(
                                                  rs, output.args.industry,
                                                  output.args.historical_data)]]
    /\ UNCHANGED <<financial_data, edits, calculator, unused, first_ratios, ratios, repeats>>
    /\ UNCHANGED interpreterVars

InitPipeline == InitCalls(PipelineCalls)

NextPipeline ==
    \/ AnalysePipeline
    \/ Drop

SpecPipeline == InitPipeline /\ [][NextPipeline]_vars

\* ------------------------------------------------------------------------
\* skill_utils.py: delete_skill.  The call in flight is the record output:
\* its arguments, the versions the service holds for the skill, the line the
\* call is at (pc), the listing it got, the versions still to delete and
\* the requests it has issued to the service, each with its outcome.
\* ------------------------------------------------------------------------
VersionIds == {"1759178010641129", "1759178010641130", "1759178010641131"}

\* the version lists the service may hold: up to MaxVersions distinct ids
VersionLists ==
    {versions \in SeqsUpTo(VersionIds, MaxVersions) :
        \A i, j \in 1..Len(versions) : i # j => versions[i] # versions[j]}

DeleteCalls ==
    {[call |-> "delete_skill",
      args |-> [skill_id |-> skill_id, delete_versions |-> delete_versions],
      held |-> held, pc |-> IF delete_versions THEN "list" ELSE "skill",
      data |-> <<>>, todo |-> <<>>, requests |-> <<>>,
      done |-> FALSE, ret |-> None] :
        skill_id \in {"skill_01", "skill_02"}, delete_versions \in BOOLEAN,
        held \in VersionLists}

Request(op, version, ok) == [op |-> op, version |-> version, ok |-> ok]

\* the failed request passed over: the call goes on from where it was
passing_over_errors(frame) == frame

\* except Exception: return False
ReturnFalse(frame) == [frame EXCEPT !.pc = "returned", !.done = TRUE, !.ret = FALSE]

\* versions = client.beta.skills.versions.list(skill_id=skill_id)
ListVersions ==
    /\ Pending("delete_skill")
    /\ output.pc = "list"
    /\ \E ok \in BOOLEAN :
          LET issued == [output EXCEPT
                            !.requests = Append(@, Request("versions.list", "", ok))]
          IN  output' = IF ok
                        THEN [issued EXCEPT !.data = output.held, !.todo = output.held,
                                            !.pc = IF output.held = <<>> THEN "skill"
                                                   ELSE "versions"]
                        ELSE ReturnFalse(issued)
    /\ UNCHANGED <<financial_data, edits, calculator, unused, first_ratios, ratios, repeats>>
    /\ UNCHANGED interpreterVars

\* client.beta.skills.versions.delete(skill_id=skill_id, version=version.version)
DeleteVersion ==
    /\ Pending("delete_skill")
    /\ output.pc = "versions"
    /\ \E ok \in BOOLEAN :
          LET issued == [output EXCEPT
                            !.requests = Append(@, Request("versions.delete",
                                                           Head(output.todo), ok))]
          IN  output' = IF ok
                        THEN [issued EXCEPT !.todo = Tail(@),
                                            !.pc = IF Tail(output.todo) = <<>> THEN "skill"
                                                   ELSE "versions"]
                        ELSE ReturnFalse(issued)
    /\ UNCHANGED <<financial_data, edits, calculator, unused, first_ratios, ratios, repeats>>
    /\ UNCHANGED interpreterVars

\* client.beta.skills.delete(skill_id); return True
DeleteSkill ==
    /\ Pending("delete_skill")
    /\ output.pc = "skill"
    /\ \E ok \in BOOLEAN :
          LET issued == [output EXCEPT
                            !.requests = Append(@, Request("skills.delete", "", ok))]
          IN  output' = IF ok
                        THEN [issued EXCEPT !.pc = "returned", !.done = TRUE, !.ret = TRUE]
                        ELSE ReturnFalse(issued)
    /\ UNCHANGED <<financial_data, edits, calculator, unused, first_ratios, ratios, repeats>>
    /\ UNCHANGED interpreterVars

InitDelete == InitCalls(DeleteCalls)

NextDelete ==
    \/ ListVersions
    \/ DeleteVersion
    \/ DeleteSkill
    \/ Drop

SpecDelete == InitDelete /\ [][NextDelete]_vars

\* ------------------------------------------------------------------------
\* file_utils.py: download_file.  The call in flight is the record output:
\* its arguments, the file system (the output directory and the file at
\* output_path, each there or not), the file system as it was at the call,
\* the line the call is at (pc), its locals file_exists and file_content,
\* its result dict, and the number of download requests it has issued.
\* ------------------------------------------------------------------------
\* a file of size bytes
File(size) == [size |-> size]

\* output_path with its os.path.dirname
OutputPaths ==
    {[dirname |-> "", name |-> "report.xlsx"],
     [dirname |-> "outputs", name |-> "outputs/report.xlsx"]}

\* the file systems a call may find: a file only in a directory that is there
FileSystems(output_path) ==
    {[dir |-> TRUE, file |-> None], [dir |-> TRUE, file |-> File(10)]}
    \cup (IF output_path.dirname = "" THEN {} ELSE {[dir |-> FALSE, file |-> None]})

\* the sizes of the content the service may send
ContentSizes == {0, 2048}

DownloadCalls ==
    UNION {{[call |-> "download_file",
             args |-> [file_id |-> "file_abc123", output_path |-> output_path,
                       overwrite |-> overwrite],
             fs |-> fs, before |-> fs, pc |-> "exists",
             file_exists |-> None, file_content |-> None, raised |-> None,
             result |-> [file_id |-> "file_abc123", output_path |-> output_path.name,
                         size |-> 0, success |-> FALSE, error |-> None],
             requests |-> 0, done |-> FALSE, ret |-> None] :
            overwrite \in BOOLEAN, fs \in FileSystems(output_path)} :
        output_path \in OutputPaths}

\* return result
Return(frame) == [frame EXCEPT !.pc = "returned", !.done = TRUE, !.ret = frame.result]

\* except Exception as e: result["error"] = str(e)
Except(frame, e) ==
    Return([frame EXCEPT !.raised = Raised(e), !.result = Put(@, "error", [str |-> e])])

\* if file_exists and not overwrite (line 126), with the exists test deciding
\* nothing
never_blocked(file_exists, overwrite) == FALSE

\* if file_exists and not overwrite
Blocked(file_exists, overwrite) == file_exists /\ ~overwrite

Frame ==
    /\ UNCHANGED <<financial_data, edits, calculator, unused, first_ratios, ratios, repeats>>
    /\ UNCHANGED interpreterVars

\* file_exists = os.path.exists(output_path); the early return of overwrite=False
CheckExists ==
    /\ Pending("download_file")
    /\ output.pc = "exists"
    /\ LET file_exists == output.fs.file # None
           checked == [output EXCEPT !.file_exists = file_exists]
       IN  output' =
             IF Blocked(file_exists, output.args.overwrite)
             THEN Return([checked EXCEPT
                            !.result = Put(@, "error",
                                           [str |-> "File already exists: {} (set overwrite=True to replace)"])])
             ELSE [checked EXCEPT !.pc = IF output.args.output_path.dirname # ""
                                         THEN "mkdir" ELSE "download"]
    /\ Frame

\* Path(output_dir).mkdir(parents=True, exist_ok=True)
MakeDir ==
    /\ Pending("download_file")
    /\ output.pc = "mkdir"
    /\ \E ok \in BOOLEAN :
          output' = IF ok THEN [output EXCEPT !.fs.dir = TRUE, !.pc = "download"]
                    ELSE Except(output, "PermissionError")
    /\ Frame

\* file_content = client.beta.files.download(file_id=file_id)
Download ==
    /\ Pending("download_file")
    /\ output.pc = "download"
    /\ \/ \E size \in ContentSizes :
            output' = [output EXCEPT !.requests = @ + 1, !.file_content = File(size),
                                     !.pc = "open"]
       \/ output' = Except([output EXCEPT !.requests = @ + 1], "NotFoundError")
    /\ Frame

\* with open(output_path, "wb") as f: the file is created or truncated
Open ==
    /\ Pending("download_file")
    /\ output.pc = "open"
    /\ \E ok \in BOOLEAN :
          output' = IF ok /\ output.fs.dir
                    THEN [output EXCEPT !.fs.file = File(0), !.pc = "write"]
                    ELSE Except(output, "OSError")
    /\ Frame

\* f.write(file_content.read())
WriteContent ==
    /\ Pending("download_file")
    /\ output.pc = "write"
    /\ \E ok \in BOOLEAN :
          output' = IF ok THEN [output EXCEPT !.fs.file = output.file_content,
                                              !.pc = "getsize"]
                    ELSE Except(output, "OSError")
    /\ Frame

\* result["size"] = os.path.getsize(output_path); success; overwritten
GetSize ==
    /\ Pending("download_file")
    /\ output.pc = "getsize"
    /\ \E ok \in BOOLEAN :
          output' = IF ok
                    THEN Return([output EXCEPT
                                    !.result = Put(Put(Put(@, "size", output.fs.file.size),
                                                       "success", TRUE),
                                                   "overwritten", output.file_exists)])
                    ELSE Except(output, "OSError")
    /\ Frame

InitDownload == InitCalls(DownloadCalls)

NextDownload ==
    \/ CheckExists
    \/ MakeDir
    \/ Download
    \/ Open
    \/ WriteContent
    \/ GetSize
    \/ Drop

SpecDownload == InitDownload /\ [][NextDownload]_vars

\* ------------------------------------------------------------------------
\* Properties of the ratio engine (specification Spec).  In every state with
\* ratios # None, ratios is what calculate_all_ratios returned for the present
\* financial_data: a change of the record ends the run.
\* ------------------------------------------------------------------------
\* the amount the record holds for a field, 0 when the field or its table is missing
Amount(table, field) ==
    IF table \in DOMAIN financial_data /\ field \in DOMAIN financial_data[table]
    THEN financial_data[table][field]
    ELSE Zero

Computed == ratios # None /\ ~IsRaised(ratios)

\* every division the engine makes but the peg_ratio's, as the spec states it:
\* the ratio it yields, its numerator and its denominator
Divisions ==
    LET income(field)  == Amount("income_statement", field)
        balance(field) == Amount("balance_sheet", field)
        market(field)  == Amount("market_data", field)
        market_cap       == RMul(market("share_price"), market("shares_outstanding"))
        enterprise_value == RSub(RAdd(market_cap, balance("total_debt")),
                                 balance("cash_and_equivalents"))
        Division(category, name, numerator, denominator) ==
            [category |-> category, name |-> name, ratio |-> ratios[category][name],
             numerator |-> numerator, denominator |-> denominator]
    IN  {Division("profitability", "roe", income("net_income"), balance("shareholders_equity")),
         Division("profitability", "roa", income("net_income"), balance("total_assets")),
         Division("profitability", "gross_margin",
                  RSub(income("revenue"), income("cost_of_goods_sold")), income("revenue")),
         Division("profitability", "operating_margin", income("operating_income"),
                  income("revenue")),
         Division("profitability", "net_margin", income("net_income"), income("revenue")),
         Division("liquidity", "current_ratio", balance("current_assets"),
                  balance("current_liabilities")),
         Division("liquidity", "quick_ratio",
                  RSub(balance("current_assets"), balance("inventory")),
                  balance("current_liabilities")),
         Division("liquidity", "cash_ratio", balance("cash_and_equivalents"),
                  balance("current_liabilities")),
         Division("leverage", "debt_to_equity", balance("total_debt"),
                  balance("shareholders_equity")),
         Division("leverage", "interest_coverage", income("ebit"), income("interest_expense")),
         Division("leverage", "debt_service_coverage", income("operating_income"),
                  RAdd(income("interest_expense"), balance("current_portion_long_term_debt"))),
         Division("efficiency", "asset_turnover", income("revenue"), balance("total_assets")),
         Division("efficiency", "inventory_turnover", income("cost_of_goods_sold"),
                  balance("inventory")),
         Division("efficiency", "receivables_turnover", income("revenue"),
                  balance("accounts_receivable")),
         Division("efficiency", "days_sales_outstanding", R(365),
                  ratios.efficiency.receivables_turnover),
         Division("valuation", "eps", income("net_income"), market("shares_outstanding")),
         Division("valuation", "pe_ratio", market("share_price"), ratios.valuation.eps),
         Division("valuation", "book_value_per_share", balance("shareholders_equity"),
                  market("shares_outstanding")),
         Division("valuation", "pb_ratio", market("share_price"),
                  ratios.valuation.book_value_per_share),
         Division("valuation", "ps_ratio", market_cap, income("revenue")),
         Division("valuation", "ev_to_ebitda", enterprise_value, income("ebitda"))}

\* C1: for every statement record calculate_all_ratios does not raise, and
\* each ratio whose division has a denominator equal to 0 is 0; this includes
\* the divisions by a computed ratio (days_sales_outstanding by a zero
\* receivables_turnover, pe_ratio by a zero eps, pb_ratio by a zero
\* book_value_per_share) and debt_service_coverage when interest_expense and
\* current_portion_long_term_debt sum to 0.
ZeroDenominatorYieldsZero ==
    ratios # None =>
        /\ ~IsRaised(ratios)
        /\ \A division \in Divisions :
              division.denominator = Zero => division.ratio = Zero

\* a record whose net_income is 0 while its share price and share count are
\* not: eps is 0 and pe_ratio divides by it
ChainedZeroDenominator ==
    /\ Computed
    /\ Amount("income_statement", "net_income") = Zero
    /\ Amount("market_data", "share_price") # Zero
    /\ Amount("market_data", "shares_outstanding") # Zero
    /\ ratios.valuation.eps = Zero
    /\ ratios.valuation.pe_ratio = Zero

\* C2: peg_ratio is a key of the valuation category exactly when
\* market_data.earnings_growth_rate is greater than 0 (so not when it is
\* missing, zero or negative), and then it is pe_ratio / (rate * 100).
PegRatioIffGrowthPositive ==
    Computed =>
        LET rate == Amount("market_data", "earnings_growth_rate")
        IN  /\ "peg_ratio" \in DOMAIN ratios.valuation <=> rate.n > 0
            /\ "peg_ratio" \in DOMAIN ratios.valuation =>
                  RMul(ratios.valuation.peg_ratio, RMul(rate, R(100)))
                     = ratios.valuation.pe_ratio

\* the sample record: growth 0.10, pe_ratio 33.33..., peg_ratio 3.33...
PegRatioComputed ==
    /\ Computed
    /\ Amount("market_data", "earnings_growth_rate") = Norm(1, 10)
    /\ "peg_ratio" \in DOMAIN ratios.valuation
    /\ ratios.valuation.peg_ratio = Norm(10, 3)

\* the record with every field the sample names present, the missing ones 0
ZeroFilled(data) ==
    [table \in TableNames |->
        [field \in Fields(table) \cup (IF table \in DOMAIN data THEN DOMAIN data[table] ELSE {}) |->
            IF table \in DOMAIN data /\ field \in DOMAIN data[table]
            THEN data[table][field]
            ELSE Zero]]

AllZero ==
    [profitability |-> [roe |-> Zero, roa |-> Zero, gross_margin |-> Zero,
                        operating_margin |-> Zero, net_margin |-> Zero],
     liquidity     |-> [current_ratio |-> Zero, quick_ratio |-> Zero, cash_ratio |-> Zero],
     leverage      |-> [debt_to_equity |-> Zero, interest_coverage |-> Zero,
                        debt_service_coverage |-> Zero],
     efficiency    |-> [asset_turnover |-> Zero, inventory_turnover |-> Zero,
                        receivables_turnover |-> Zero, days_sales_outstanding |-> Zero],
     valuation     |-> [pe_ratio |-> Zero, eps |-> Zero, pb_ratio |-> Zero,
                        book_value_per_share |-> Zero, ps_ratio |-> Zero,
                        ev_to_ebitda |-> Zero]]

\* C3: a missing field or sub-table is treated as 0: calculate_all_ratios
\* does not raise and returns what it returns for the same record with the
\* field present and 0; the empty record yields the five categories with
\* every ratio 0 and no peg_ratio.
MissingIsZero ==
    ratios # None =>
        /\ ~IsRaised(ratios)
        /\ ratios = calculate_all_ratios(FinancialRatioCalculator(ZeroFilled(financial_data)).self).ret
        /\ financial_data = EmptyDict => ratios = AllZero

\* the sample record without its market_data table
MissingTableComputed ==
    /\ Computed
    /\ "market_data" \notin DOMAIN financial_data
    /\ ratios.profitability.roe = Norm(1, 10)
    /\ ratios.valuation.ps_ratio = Zero

\* C4: each profitability, liquidity, leverage and efficiency ratio whose
\* denominator is not 0 is its numerator divided by its denominator; the
\* sample record (revenue 1,000,000, cogs 600,000, net_income 150,000, equity
\* 1,500,000, assets 2,000,000) gives roe 0.10, roa 0.075, gross_margin 0.40.
RatioIsNumeratorOverDenominator ==
    Computed =>
        /\ \A division \in Divisions :
              division.category # "valuation" /\ division.denominator # Zero
                 => RMul(division.ratio, division.denominator) = division.numerator
        /\ financial_data = sample_data =>
              /\ ratios.profitability.roe = Norm(10, 100)
              /\ ratios.profitability.roa = Norm(75, 1000)
              /\ ratios.profitability.gross_margin = Norm(40, 100)

\* the sample record, none of whose denominators is 0
SampleRatiosComputed ==
    /\ Computed
    /\ financial_data = sample_data
    /\ \A division \in Divisions : division.denominator # Zero
    /\ ratios.liquidity.quick_ratio = Norm(550000, 400000)

ValuationEntries ==
    {"pe_ratio", "eps", "pb_ratio", "book_value_per_share", "ps_ratio", "ev_to_ebitda"}

\* C5 as stated: the five categories, and in valuation an entry for each of
\* market_cap, eps, pe_ratio, book_value_per_share, pb_ratio, ps_ratio,
\* enterprise_value and ev_to_ebitda.
ValuationHoldsEveryListedQuantity ==
    Computed =>
        /\ DOMAIN ratios = {"profitability", "liquidity", "leverage", "efficiency", "valuation"}
        /\ ValuationEntries \cup {"market_cap", "enterprise_value"}
              \subseteq DOMAIN ratios.valuation

\* C5 as the code has it: the five categories, and in valuation exactly the
\* entries eps, pe_ratio, book_value_per_share, pb_ratio, ps_ratio and
\* ev_to_ebitda, with peg_ratio the only other key; market_cap
\* (share_price * shares_outstanding) and enterprise_value (market_cap +
\* total_debt - cash) have no entry, they are the numerators of ps_ratio and
\* ev_to_ebitda.
FiveCategoriesSixValuationEntries ==
    Computed =>
        /\ DOMAIN ratios = {"profitability", "liquidity", "leverage", "efficiency", "valuation"}
        /\ DOMAIN ratios.valuation \ {"peg_ratio"} = ValuationEntries
        /\ \A division \in Divisions :
              division.name \in {"ps_ratio", "ev_to_ebitda"} /\ division.denominator # Zero
                 => RMul(division.ratio, division.denominator) = division.numerator

\* the sample record: market_cap 5,000,000, enterprise_value 5,300,000
ValuationComputed ==
    /\ Computed
    /\ financial_data = sample_data
    /\ ratios.valuation.ps_ratio = R(5)
    /\ ratios.valuation.ev_to_ebitda = Norm(5300000, 250000)

\* C6: every calculate_all_ratios call made on a record returns what the
\* first call on it returned, whether made on the same calculator again or on
\* another calculator built from the record.
RepeatedCallsAgree ==
    ratios # None => ratios = first_ratios

\* the ratios computed again on the same calculator and on a second one
ComputedAgainBothWays ==
    /\ Computed
    /\ repeats = {"same calculator", "new calculator"}
    /\ "peg_ratio" \in DOMAIN ratios.valuation

\* C7: no step but a change the caller makes itself changes the caller's
\* record or one of its sub-tables: not building a calculator, not
\* calculate_all_ratios, calculate_ratios_from_data or
\* perform_comprehensive_analysis.
RecordOnlyRead ==
    [][edits' = edits => financial_data' = financial_data]_vars

\* a record that lacks a sub-table, still as the caller left it after the
\* ratios were computed from it and analysed
AnalysedRecordLacksTable ==
    /\ output # None
    /\ output.call = "perform_comprehensive_analysis"
    /\ financial_data # EmptyDict
    /\ TableNames \ DOMAIN financial_data # {}

\* ------------------------------------------------------------------------
\* Properties of the interpreter (specification SpecInterp)
\* ------------------------------------------------------------------------
\* C8: an interpreter built for an industry name that is none of technology,
\* retail, financial, manufacturing, healthcare in any casing is built
\* without failing, has the general band set, never an empty one, and its
\* interpret_ratio returns for every ratio name and value the rating and the
\* band an interpreter built for "general" returns.
UnknownIndustryIsGeneral ==
    interpreter # None /\ (\E name \in UnsupportedIndustries : industry_arg \in Casings(name)) =>
        /\ ~IsRaised(interpreter)
        /\ interpreter.benchmarks # EmptyDict
        /\ interpreter.benchmarks = _get_general_benchmarks
        /\ interpretation # None =>
              LET for_general == interpret_ratio(RatioInterpreter(general), ratio_arg,
                                                 interpretation.value)
              IN  /\ ~IsRaised(interpretation)
                  /\ interpretation.rating = for_general.rating
                  /\ interpretation.benchmark_comparison = for_general.benchmark_comparison

\* "aerospace" asked about a roe of 0.15, the general band's threshold
AerospaceRated ==
    /\ interpretation # None
    /\ industry_arg = aerospace
    /\ ratio_arg = "roe"
    /\ interpretation.value = Norm(15, 100)
    /\ interpretation.rating = "Good"
    /\ interpretation.benchmark_comparison = Tiers(20, 15, 10, 5)

\* C9: an interpreter built for a supported industry's name in any casing
\* has the band set of the lower-case name, and each of its interpret_ratio
\* results is the result the interpreter built for the lower-case name returns.
CaseInsensitiveLookup ==
    interpreter # None =>
        \A name \in SupportedIndustries :
            industry_arg \in Casings(name) =>
                /\ interpreter.benchmarks = BENCHMARKS[name]
                /\ interpretation # None =>
                      interpretation = interpret_ratio(RatioInterpreter(name), ratio_arg,
                                                       interpretation.value)

\* "TECHNOLOGY" asked about a gross_margin of 0.50
CapitalsRated ==
    /\ interpretation # None
    /\ industry_arg = upper(technology)
    /\ industry_arg # technology
    /\ ratio_arg = "gross_margin"
    /\ interpretation.value = Norm(50, 100)
    /\ interpretation.rating = "Good"
    /\ interpretation.message = MessageFor("Above average performance for {} industry", technology)

PeRatings == {"Potentially Undervalued", "Fair Value", "Growth Premium", "Expensive"}

\* C10 as stated: a pe_ratio of any value is rated Potentially Undervalued,
\* Fair Value, Growth Premium or Expensive, and "N/A" is the rating only of a
\* ratio without an entry in the active band set.
PeRatioAlwaysRated ==
    interpretation # None =>
        /\ ratio_arg = "pe_ratio" => interpretation.rating \in PeRatings
        /\ interpretation.rating = "N/A" => ratio_arg \notin DOMAIN interpreter.benchmarks

\* C10 as the code has it: every band set has a pe_ratio entry; a pe_ratio
\* greater than 0 is rated by the ordered ranges (below undervalued, below
\* fair, below growth, otherwise Expensive); "N/A" is the rating only of a
\* ratio without an entry in the active band set or of a pe_ratio that is
\* not greater than 0.
PeRatioRatedWhenPositive ==
    interpretation # None =>
        LET value == interpretation.value
            band  == interpreter.benchmarks.pe_ratio
        IN  /\ "pe_ratio" \in DOMAIN interpreter.benchmarks
            /\ ratio_arg = "pe_ratio" /\ value.n > 0 =>
                  interpretation.rating =
                     IF RLt(value, band.undervalued) THEN "Potentially Undervalued"
                     ELSE IF RLt(value, band.fair) THEN "Fair Value"
                     ELSE IF RLt(value, band.growth) THEN "Growth Premium"
                     ELSE "Expensive"
            /\ interpretation.rating = "N/A" =>
                  \/ ratio_arg \notin DOMAIN interpreter.benchmarks
                  \/ ratio_arg = "pe_ratio" /\ value.n <= 0

\* technology asked about a pe_ratio of 25, its fair threshold
PeRatioAtThreshold ==
    /\ interpretation # None
    /\ interpreter.industry = technology
    /\ ratio_arg = "pe_ratio"
    /\ interpretation.value = R(25)
    /\ interpretation.rating = "Growth Premium"

\* C24: for current_ratio, roe and gross_margin the rating is the first of
\* Excellent, Good, Acceptable whose threshold the value reaches
\* (value >= threshold), else Poor; for debt_to_equity it is the first whose
\* threshold the value stays within (value <= threshold), else Poor; a
\* value equal to a threshold gets that tier, and the "poor" threshold of
\* the band has no influence.
FirstTierReached ==
    /\ interpretation # None
    /\ ratio_arg \in {"current_ratio", "roe", "gross_margin", "debt_to_equity"}
    /\ ratio_arg \in DOMAIN interpreter.benchmarks
    =>
        LET value == interpretation.value
            band  == interpreter.benchmarks[ratio_arg]
            Meets(threshold) == IF ratio_arg = "debt_to_equity"
                                THEN RLe(value, threshold) ELSE RGe(value, threshold)
        IN  /\ interpretation.rating =
                  IF Meets(band.excellent) THEN "Excellent"
                  ELSE IF Meets(band.good) THEN "Good"
                  ELSE IF Meets(band.acceptable) THEN "Acceptable"
                  ELSE "Poor"
            /\ \A tier \in {"excellent", "good", "acceptable"} :
                  value = band[tier] =>
                      interpretation.rating \in
                          {"Excellent"} \cup (IF tier = "excellent" THEN {} ELSE {"Good"})
                          \cup (IF tier = "acceptable" THEN {"Acceptable"} ELSE {})
            /\ \A poor \in {R(-5), R(1000)} :
                  interpret_ratio([interpreter EXCEPT !.benchmarks[ratio_arg].poor = poor],
                                  ratio_arg, value).rating = interpretation.rating

\* retail asked about a debt_to_equity of 0.8, its good threshold
DebtToEquityAtThreshold ==
    /\ interpretation # None
    /\ interpreter.industry = retail
    /\ ratio_arg = "debt_to_equity"
    /\ interpretation.value = Norm(8, 10)
    /\ interpretation.rating = "Good"

\* C25: for a ratio that has a band the recommendation is the table's
\* string for (ratio_name, rating), and a pair the table lacks gets
\* "Continue monitoring this metric": gross_margin gets it for every rating.
RecommendationFromTable ==
    interpretation # None /\ ratio_arg \in DOMAIN interpreter.benchmarks =>
        LET rating  == interpretation.rating
            generic == "Continue monitoring this metric"
            tabled  == /\ ratio_arg \in {"current_ratio", "debt_to_equity", "roe", "pe_ratio"}
                       /\ rating # "N/A"
        IN  /\ (interpretation.recommendation = generic) <=> ~tabled
            /\ ratio_arg = "gross_margin" => interpretation.recommendation = generic
            /\ ratio_arg = "roe" /\ rating = "Poor" =>
                  interpretation.recommendation =
                     "Focus on improving operational efficiency and profitability"
            /\ ratio_arg = "roe" /\ rating = "Excellent" =>
                  interpretation.recommendation =
                     "Outstanding performance - ensure sustainability of high returns"
            /\ ratio_arg = "current_ratio" /\ rating = "Good" =>
                  interpretation.recommendation =
                     "Maintain current liquidity management practices"
            /\ ratio_arg = "debt_to_equity" /\ rating = "Acceptable" =>
                  interpretation.recommendation =
                     "Monitor debt levels and ensure adequate interest coverage"
            /\ ratio_arg = "pe_ratio" /\ rating = "Expensive" =>
                  interpretation.recommendation =
                     "Consider valuation risk - ensure fundamentals support high multiple"
            /\ interpretation.recommendation = _get_recommendation(ratio_arg, rating)

\* gross_margin rated Excellent, and still the generic text
GrossMarginExcellentGeneric ==
    /\ interpretation # None
    /\ ratio_arg = "gross_margin"
    /\ interpretation.rating = "Excellent"
    /\ interpretation.recommendation = "Continue monitoring this metric"

\* a band set is ordered: thresholds fall from excellent to poor for
\* current_ratio, roe and gross_margin, rise for debt_to_equity, and rise
\* strictly from undervalued to expensive for pe_ratio
Ordered(benchmarks) ==
    /\ \A ratio_name \in DOMAIN benchmarks \cap {"current_ratio", "roe", "gross_margin"} :
          /\ RGe(benchmarks[ratio_name].excellent, benchmarks[ratio_name].good)
          /\ RGe(benchmarks[ratio_name].good, benchmarks[ratio_name].acceptable)
          /\ RGe(benchmarks[ratio_name].acceptable, benchmarks[ratio_name].poor)
    /\ "debt_to_equity" \in DOMAIN benchmarks =>
          /\ RLe(benchmarks.debt_to_equity.excellent, benchmarks.debt_to_equity.good)
          /\ RLe(benchmarks.debt_to_equity.good, benchmarks.debt_to_equity.acceptable)
          /\ RLe(benchmarks.debt_to_equity.acceptable, benchmarks.debt_to_equity.poor)
    /\ "pe_ratio" \in DOMAIN benchmarks =>
          /\ RLt(benchmarks.pe_ratio.undervalued, benchmarks.pe_ratio.fair)
          /\ RLt(benchmarks.pe_ratio.fair, benchmarks.pe_ratio.growth)
          /\ RLt(benchmarks.pe_ratio.growth, benchmarks.pe_ratio.expensive)

\* how good a tier is
TierRank(rating) ==
    CASE rating = "Excellent" -> 4
      [] rating = "Good" -> 3
      [] rating = "Acceptable" -> 2
      [] rating = "Poor" -> 1

\* C28: every band set of the catalog and the general band set are
\* ordered; and the rating is monotone: a higher value of current_ratio,
\* roe or gross_margin never gets a worse tier, a higher debt_to_equity
\* never a better one.
BandsOrderedRatingMonotone ==
    /\ DOMAIN catalog = SupportedIndustries
    /\ \A industry \in DOMAIN catalog : Ordered(catalog[industry])
    /\ Ordered(_get_general_benchmarks)
    /\ interpreter # None => Ordered(interpreter.benchmarks)
    /\ /\ interpretation # None
       /\ ratio_arg \in {"current_ratio", "roe", "gross_margin", "debt_to_equity"}
       /\ ratio_arg \in DOMAIN interpreter.benchmarks
       =>
          \A higher \in ProbeValues(interpreter, ratio_arg) :
              RGe(higher, interpretation.value) =>
                  LET after == TierRank(interpret_ratio(interpreter, ratio_arg, higher).rating)
                      now  == TierRank(interpretation.rating)
                  IN  IF ratio_arg = "debt_to_equity" THEN after <= now ELSE after >= now

\* healthcare asked about a debt_to_equity just above its good threshold
HealthcareDebtAboveGood ==
    /\ interpretation # None
    /\ interpreter.industry = healthcare
    /\ ratio_arg = "debt_to_equity"
    /\ interpretation.value = Norm(61, 100)
    /\ interpretation.rating = "Acceptable"

\* C30: the general band set replaces a whole missing industry, never a
\* single missing ratio: the financial interpreter, whose band set has no
\* gross_margin, rates gross_margin "N/A" with an empty band for every
\* value, and an interpreter for an unknown industry rates it against the
\* general gross_margin band.
FallbackPerIndustry ==
    /\ interpreter # None /\ interpreter.industry = financial =>
          /\ "gross_margin" \notin DOMAIN interpreter.benchmarks
          /\ interpreter.benchmarks = catalog[financial]
    /\ interpretation # None /\ ratio_arg = "gross_margin" =>
          /\ interpreter.industry = financial =>
                /\ interpretation.rating = "N/A"
                /\ interpretation.benchmark_comparison = EmptyDict
          /\ interpreter.industry \notin DOMAIN catalog =>
                LET band == _get_general_benchmarks.gross_margin
                    value == interpretation.value
                IN  /\ interpretation.benchmark_comparison = band
                    /\ interpretation.rating =
                          IF RGe(value, band.excellent) THEN "Excellent"
                          ELSE IF RGe(value, band.good) THEN "Good"
                          ELSE IF RGe(value, band.acceptable) THEN "Acceptable"
                          ELSE "Poor"

\* financial asked about a gross_margin of 0.1
FinancialGrossMarginUnrated ==
    /\ interpretation # None
    /\ industry_arg = financial
    /\ ratio_arg = "gross_margin"
    /\ interpretation.value = Norm(1, 10)
    /\ interpretation.rating = "N/A"
    /\ interpretation.benchmark_comparison = EmptyDict

\* C11: for a ratio name without an entry in the active band set,
\* interpret_ratio returns the rating "N/A", an empty message, an empty band
\* and an empty recommendation string.
UnknownRatioIsBlank ==
    interpretation # None /\ ratio_arg \notin DOMAIN interpreter.benchmarks =>
        /\ interpretation.rating = "N/A"
        /\ interpretation.message = Message("")
        /\ interpretation.benchmark_comparison = EmptyDict
        /\ interpretation.recommendation = ""

\* ------------------------------------------------------------------------
\* Properties of the interpreter and the catalog under a caller that writes
\* into its results (specification SpecWriter)
\* ------------------------------------------------------------------------
\* C12: the static BENCHMARKS table stays as the source writes it, and every
\* interpretation interpret_ratio returns has the rating and the band it has
\* with the table and the general band set as the source writes them,
\* whatever the caller wrote into earlier interpretations.
NoSharedMutableState ==
    /\ catalog = BENCHMARKS
    /\ interpretation # None /\ ~tampered =>
          LET untouched == [industry   |-> interpreter.industry,
                            benchmarks |-> Get(BENCHMARKS, interpreter.industry,
                                               _get_general_benchmarks)]
              expected  == interpret_ratio(untouched, ratio_arg, interpretation.value)
          IN  /\ interpretation.rating = expected.rating
              /\ interpretation.benchmark_comparison = expected.benchmark_comparison

\* ------------------------------------------------------------------------
\* Properties of analyze_trend (specification SpecTrend)
\* ------------------------------------------------------------------------
\* C13: for at least 2 values, the first not 0 (and period labels to name):
\* pct_change is (last - first) / |first| * 100; when |pct_change| >= 5 the
\* trend of debt_to_equity is "Deteriorating" if the value rose and
\* "Improving" if it fell, and of any other ratio "Improving" if it rose and
\* "Deteriorating" if it fell; debt_to_equity 0.5 -> 0.8 is 60 % and
\* Deteriorating, roe 0.10 -> 0.04 is -60 % and Deteriorating.
TrendFollowsPolarity ==
    Returned("analyze_trend") =>
        LET args  == output.args
            first == args.values[1]
            last  == args.values[Len(args.values)]
            rose  == last.n * first.d > first.n * last.d
            ret   == output.ret
        IN  Len(args.values) >= 2 /\ first # Zero /\ args.periods # <<>> =>
               /\ ~IsRaised(ret)
               /\ RMul(ret.pct_change, RAbs(first)) = RMul(RSub(last, first), R(100))
               /\ RGe(RAbs(ret.pct_change), R(5)) =>
                     ret.trend = IF (args.ratio_name = "debt_to_equity") = rose
                                 THEN "Deteriorating" ELSE "Improving"
               /\ args.ratio_name = "debt_to_equity"
                  /\ args.values = <<Norm(1, 2), Norm(4, 5)>> =>
                     ret.pct_change = R(60) /\ ret.trend = "Deteriorating"
               /\ args.ratio_name = "roe"
                  /\ args.values = <<Norm(1, 10), Norm(1, 25)>> =>
                     ret.pct_change = R(-60) /\ ret.trend = "Deteriorating"

\* debt_to_equity 0.5 -> 0.8 over Q1, Q2
DebtToEquityRose ==
    /\ Returned("analyze_trend")
    /\ output.args = [ratio_name |-> "debt_to_equity",
                      values |-> <<Norm(1, 2), Norm(4, 5)>>,
                      periods |-> <<"Q1", "Q2">>]
    /\ output.ret.trend = "Deteriorating"
    /\ output.ret.change = Norm(3, 10)

\* C14: with fewer than 2 values analyze_trend returns, whatever the
\* periods, a result whose trend is "Insufficient data" and that has no
\* change and no pct_change (only trend and message); it does not raise.
FewValuesInsufficient ==
    Returned("analyze_trend") /\ Len(output.args.values) < 2 =>
        /\ ~IsRaised(output.ret)
        /\ output.ret.trend = "Insufficient data"
        /\ DOMAIN output.ret = {"trend", "message"}

\* one value and no period label
OneValueNoPeriods ==
    /\ Returned("analyze_trend")
    /\ Len(output.args.values) = 1
    /\ output.args.periods = <<>>
    /\ output.ret.trend = "Insufficient data"

\* C26: with at least 2 values whose first is exactly 0, analyze_trend
\* divides nothing by zero and reports pct_change 0 and the trend "Stable"
\* for every last value; and a pct_change of magnitude exactly 5 is not
\* "Stable".
ZeroFirstIsStable ==
    Returned("analyze_trend") /\ Len(output.args.values) >= 2
    /\ output.args.periods # <<>> =>
        LET first == output.args.values[1]
            ret   == output.ret
        IN  /\ ~IsRaised(ret)
            /\ first = Zero => ret.pct_change = Zero /\ ret.trend = "Stable"
            /\ RAbs(ret.pct_change) = R(5) => ret.trend \in {"Improving", "Deteriorating"}

\* from 0 to 100: no percentage, Stable
FromZeroToHundred ==
    /\ Returned("analyze_trend")
    /\ output.args.values = <<Zero, R(100)>>
    /\ output.args.periods = <<"Q1", "Q2">>
    /\ output.ret.change = R(100)
    /\ output.ret.trend = "Stable"

\* ------------------------------------------------------------------------
\* Properties of analyze_trend on longer series (specification SpecSeries)
\* ------------------------------------------------------------------------
\* C27: the trend, the change and the pct_change analyze_trend returns for
\* a series of two or more values are those it returns for the series of
\* its first and its last value alone: the values between them and the
\* length have no influence.
TrendReadsFirstAndLast ==
    Returned("analyze_trend") =>
        LET values == output.args.values
            ends   == analyze_trend(RatioInterpreter(general), output.args.ratio_name,
                                    <<values[1], values[Len(values)]>>, <<"Q1", "Q2">>)
            ret    == output.ret
        IN  /\ ~IsRaised(ret)
            /\ ret.trend = ends.trend
            /\ ret.change = ends.change
            /\ ret.pct_change = ends.pct_change

\* 0.5, 100, 0.8: the peak between the ends is not read
PeakBetweenIgnored ==
    /\ Returned("analyze_trend")
    /\ output.args.ratio_name = "debt_to_equity"
    /\ output.args.values = <<Norm(1, 2), R(100), Norm(4, 5)>>
    /\ output.ret.pct_change = R(60)
    /\ output.ret.trend = "Deteriorating"

\* ------------------------------------------------------------------------
\* Properties of _assess_overall_health (specification SpecHealth)
\* ------------------------------------------------------------------------
\* the ratings of the analysis handed over, in order
RatingsHandedOver ==
    LET rated == SelectSeq(output.args.entries, LAMBDA e : "rating" \in DOMAIN e)
    IN  [i \in 1..Len(rated) |-> rated[i].rating]

\* the score the spec gives a rating
StatedScore(rating) ==
    IF rating = "Excellent" THEN 4
    ELSE IF rating \in {"Good", "Fair Value", "Potentially Undervalued"} THEN 3
    ELSE IF rating \in {"Poor", "Expensive"} THEN 1
    ELSE 2

\* C15: each rating scores Excellent 4, Good 3, Acceptable 2, Poor 1, Fair
\* Value 3, Potentially Undervalued 3, Growth Premium 2, Expensive 1, any
\* other 2; the status is Excellent for an average >= 3.5, Good for >= 2.5,
\* Fair for >= 1.5, otherwise Poor; the average of a non-empty list is
\* between 1 and 4, and the score shown is that average.
HealthIsBucketedAverage ==
    Returned("_assess_overall_health") /\ Len(RatingsHandedOver) > 0 =>
        LET count == Len(RatingsHandedOver)
            total == Sum([i \in 1..count |-> StatedScore(RatingsHandedOver[i])])
            ret   == output.ret
        IN  /\ ~IsRaised(ret)
            /\ ret.status = IF 2 * total >= 7 * count THEN "Excellent"
                            ELSE IF 2 * total >= 5 * count THEN "Good"
                            ELSE IF 2 * total >= 3 * count THEN "Fair"
                            ELSE "Poor"
            /\ ret.score = <<Fixed(Norm(total, count), 1), "/4.0">>
            /\ count <= total /\ total <= 4 * count

\* Excellent and Good: the average 3.5 is the Excellent threshold
AverageAtThreshold ==
    /\ Returned("_assess_overall_health")
    /\ RatingsHandedOver = <<"Excellent", "Good">>
    /\ output.ret.status = "Excellent"

\* C16: for an analysis without ratings (no categories, or only empty
\* ones) _assess_overall_health does not divide by zero: it returns the
\* average score 0 and the status "Poor".
NoRatingsIsPoor ==
    Returned("_assess_overall_health") /\ Len(RatingsHandedOver) = 0 =>
        /\ ~IsRaised(output.ret)
        /\ output.ret.status = "Poor"
        /\ output.ret.score = <<Fixed(Zero, 1), "/4.0">>

\* two categories, both empty
EmptyCategoriesAssessed ==
    /\ Returned("_assess_overall_health")
    /\ output.args.current_analysis = [profitability |-> EmptyDict, valuation |-> EmptyDict]
    /\ output.ret.status = "Poor"

\* ------------------------------------------------------------------------
\* Properties of _generate_key_recommendations (specification SpecRecommend)
\* ------------------------------------------------------------------------
\* the slots whose interpretation is rated exactly "Poor"
PoorSlots ==
    {i \in 1..Len(output.args.entries) : output.args.entries[i].rating = "Poor"}

\* the ratios whose trend is labelled "Deteriorating"
FallingTrends ==
    {k \in DOMAIN output.args.analysis.trend_analysis :
        output.args.analysis.trend_analysis[k].trend = "Deteriorating"}

\* C17: the list holds one Priority entry per interpretation rated exactly
\* "Poor", with that ratio's recommendation text, then one Monitor entry
\* per trend labelled "Deteriorating", in the order produced, cut to its
\* first 5 entries: never more than 5, never a Monitor entry before a
\* Priority entry.
PoorThenFallingTopFive ==
    /\ Returned("_generate_key_recommendations") => Len(output.ret) <= 5
    /\ Returned("_generate_key_recommendations") /\ (PoorSlots # {} \/ FallingTrends # {}) =>
        LET ret      == output.ret
            entries  == output.args.entries
            priority == {i \in 1..Len(ret) : ret[i].kind = "Priority: Address"}
            monitor  == {i \in 1..Len(ret) : ret[i].kind = "Monitor:"}
            SlotOf(i) == CHOOSE n \in 1..Len(Slots) : Slots[n][2] = ret[i].ratio_name
        IN  /\ Len(ret) = Min(5, Cardinality(PoorSlots) + Cardinality(FallingTrends))
            /\ priority \cup monitor = 1..Len(ret)
            /\ \A i \in priority : \A j \in monitor : i < j
            /\ Cardinality(priority) = Min(5, Cardinality(PoorSlots))
            /\ \A i \in priority :
                /\ SlotOf(i) \in PoorSlots
                /\ ret[i].text = Get(entries[SlotOf(i)], "recommendation", "")
                /\ \A j \in priority : i < j => SlotOf(i) < SlotOf(j)
            /\ \A i \in monitor :
                /\ ret[i].ratio_name \in FallingTrends
                /\ \A j \in monitor : i # j => ret[i].ratio_name # ret[j].ratio_name

\* five poor ratings and two falling trends: seven entries produced, the
\* two Monitor entries cut
SevenCutToFive ==
    /\ Returned("_generate_key_recommendations")
    /\ Cardinality(PoorSlots) = 5
    /\ Cardinality(FallingTrends) = 2
    /\ Len(output.ret) = 5

\* C18: the list is exactly the two generic positive-outlook entries if
\* and only if no interpretation is rated "Poor" and no trend is labelled
\* "Deteriorating" (a rating of "Expensive" produces no entry); the list
\* is never empty.
GenericIffNothingFlagged ==
    Returned("_generate_key_recommendations") =>
        /\ output.ret # <<>>
        /\ (output.ret =
              <<[kind |-> "", ratio_name |-> "",
                 text |-> "Continue current financial management practices"],
                [kind |-> "", ratio_name |-> "",
                 text |-> "Consider strategic growth opportunities"]>>)
           <=> (PoorSlots = {} /\ FallingTrends = {})

\* pe_ratio rated Expensive, nothing rated Poor, no falling trend
ExpensiveButGeneric ==
    /\ Returned("_generate_key_recommendations")
    /\ output.args.entries[5].rating = "Expensive"
    /\ PoorSlots = {}
    /\ FallingTrends = {}
    /\ Len(output.ret) = 2

SummaryForEveryMapping ==
    Returned("generate_summary") =>
        /\ ~IsRaised(output.ret)
        /\ (\A c \in DOMAIN output.args.ratios :
                \A k \in DOMAIN output.args.ratios[c] :
                    RLt(output.args.ratios[c][k], Zero))
            => output.ret.text = <<[metric |-> "Insufficient data for summary.",
                                    shown |-> None, reads |-> ""]>>

\* ------------------------------------------------------------------------
\* Properties of the pipeline (specification SpecPipeline)
\* ------------------------------------------------------------------------
\* C21: for a fixed ratios mapping and industry the overall_health
\* (status, score, message) and the current_analysis that
\* perform_comprehensive_analysis returns are those it returns without
\* historical_data, whatever historical_data is supplied.
HealthIgnoresHistory ==
    Returned("perform_comprehensive_analysis") =>
        LET without == perform_comprehensive_analysis(output.ret.ratios,
                                                      output.args.industry, None)
            with    == output.ret.analysis
        IN  /\ ~IsRaised(with)
            /\ with.overall_health = without.overall_health
            /\ with.current_analysis = without.current_analysis

\* both trends of the history deteriorate, the health is that of the ratios
DeterioratingHistoryAnalysed ==
    /\ Returned("perform_comprehensive_analysis")
    /\ output.args.historical_data # None
    /\ DOMAIN output.args.historical_data = {"debt_to_equity", "roe"}
    /\ \A k \in {"debt_to_equity", "roe"} :
          output.ret.analysis.trend_analysis[k].trend = "Deteriorating"
    /\ output.ret.analysis.overall_health.status = "Fair"

\* the interpretations of the analysis returned, as a set of
\* <<category, ratio name>>
Interpreted ==
    UNION {{<<c, k>> : k \in DOMAIN output.ret.analysis.current_analysis[c]} :
            c \in DOMAIN output.ret.analysis.current_analysis}

\* C29: perform_comprehensive_analysis applied to the output of
\* calculate_all_ratios interprets 21 ratios (22 with peg_ratio), at most
\* five of them rated otherwise than "N/A", and the overall health status
\* is "Fair" for every statement record and every industry.
PipelineHealthIsFair ==
    Returned("perform_comprehensive_analysis") =>
        LET current == output.ret.analysis.current_analysis
            rated   == {e \in Interpreted : current[e[1]][e[2]].rating # "N/A"}
        IN  /\ ~IsRaised(output.ret.ratios)
            /\ Cardinality(Interpreted) =
                  IF "peg_ratio" \in DOMAIN output.ret.ratios.valuation THEN 22 ELSE 21
            /\ Cardinality(rated) <= 5
            /\ output.ret.analysis.overall_health.status = "Fair"

\* every banded ratio at its worst rating, and still Fair
AllBandedWorst ==
    /\ Returned("perform_comprehensive_analysis")
    /\ \A k \in {"roe", "gross_margin"} :
          output.ret.analysis.current_analysis.profitability[k].rating = "Poor"
    /\ output.ret.analysis.current_analysis.liquidity.current_ratio.rating = "Poor"
    /\ output.ret.analysis.current_analysis.leverage.debt_to_equity.rating = "Poor"
    /\ output.ret.analysis.current_analysis.valuation.pe_ratio.rating = "Expensive"
    /\ output.ret.analysis.overall_health.status = "Fair"

\* ------------------------------------------------------------------------
\* Properties of delete_skill (specification SpecDelete)
\* ------------------------------------------------------------------------
InDeleteSkill == output # None /\ output.call = "delete_skill"

\* the positions of the requests of one kind
Issued(op) == {i \in 1..Len(output.requests) : output.requests[i].op = op}

\* C22: with delete_versions the delete of the skill is issued only after
\* a delete has been issued for every version the listing returned; after
\* a failed listing or version delete it is never issued and the call
\* returns False; the call returns True only when the skill delete
\* succeeded; without delete_versions no version is listed or deleted.
SkillDeletedAfterItsVersions ==
    InDeleteSkill =>
        /\ \A s \in Issued("skills.delete") :
              /\ \A i \in 1..(s - 1) : output.requests[i].ok
              /\ output.args.delete_versions =>
                    /\ \E l \in Issued("versions.list") : l < s
                    /\ \A v \in 1..Len(output.held) :
                          \E d \in Issued("versions.delete") :
                              d < s /\ output.requests[d].version = output.held[v]
        /\ \A i \in 1..Len(output.requests) :
              ~output.requests[i].ok =>
                  /\ i = Len(output.requests)
                  /\ output.done /\ output.ret = FALSE
        /\ output.done /\ output.ret = TRUE =>
              \E s \in Issued("skills.delete") : output.requests[s].ok
        /\ output.done /\ output.ret = FALSE =>
              \E i \in 1..Len(output.requests) : ~output.requests[i].ok
        /\ ~output.args.delete_versions =>
              Issued("versions.list") \cup Issued("versions.delete") = {}

\* two versions deleted, then the skill
TwoVersionsThenSkill ==
    /\ InDeleteSkill
    /\ output.done /\ output.ret = TRUE
    /\ Len(output.held) = 2
    /\ Len(output.requests) = 4
    /\ output.requests[4].op = "skills.delete"

\* ------------------------------------------------------------------------
\* Properties of download_file (specification SpecDownload)
\* ------------------------------------------------------------------------
\* C23: download_file with overwrite=False for a path that exists returns
\* success False with an error, issues no download request and leaves the
\* file as it was; in every result success True implies error is None and
\* "overwritten" is whether the file existed before the call; a failure of
\* any step yields success False with the error text, not an exception.
DownloadReportsInResult ==
    Returned("download_file") =>
        LET ret     == output.ret
            existed == output.before.file # None
        IN  /\ ~IsRaised(ret)
            /\ {"file_id", "output_path", "size", "success", "error"} \subseteq DOMAIN ret
            /\ existed /\ ~output.args.overwrite =>
                  /\ ~ret.success
                  /\ ret.error # None
                  /\ output.requests = 0
                  /\ output.fs = output.before
            /\ ret.success =>
                  /\ ret.error = None
                  /\ "overwritten" \in DOMAIN ret
                  /\ ret.overwritten = existed
            /\ output.raised # None =>
                  /\ ~ret.success
                  /\ ret.error = [str |-> output.raised.raised]

\* the file exists, overwrite=False: refused
ExistingFileKept ==
    /\ Returned("download_file")
    /\ output.before.file = File(10)
    /\ ~output.args.overwrite
    /\ output.fs.file = File(10)
    /\ ~output.ret.success

====
